---- MODULE Spec2Model ----
(***************************************************************************)
(* A model of the scenario management of draf's CaseStudy                  *)
(* (src/draf/core/case_study.py): the ordered scenario store, add_scen,    *)
(* add_scens, improve_pareto_norm_factors, the sequential and the parallel *)
(* optimize, save and open_casestudy, the construction of the case study,  *)
(* the time window of set_time_horizon and set_rolling_horizon             *)
(* (src/draf/core/datetime_handler.py), and the ordering of the SEMDR      *)
(* components (src/draf/components/semdr_components.py).                   *)
(* Scenarios are Python objects: the store maps ids to references and the  *)
(* heap maps references to the objects' fields, so that sharing between a  *)
(* base scenario and a derived one can be expressed.                       *)
(***************************************************************************)
EXTENDS Integers, Sequences, FiniteSets, TLC

VARIABLES
    scens,      \* CaseStudy.scens: sequence of [id, ref], in insertion order
    heap,       \* reference -> Scenario object
    scen_vars,  \* CaseStudy.scen_vars, set by add_scens
    scen_df,    \* CaseStudy.scen_df, the sweep table set by add_scens
    last,       \* the last call: its name, arguments and outcome
    pre,        \* scens and heap as they were when the last call started
    ops,        \* the number of calls made so far
    run,        \* the optimize call in progress, when its steps are followed
    cs,         \* the CaseStudy object: its identity and its other attributes
    files,      \* the pickle files written by save, in the order written
    opened,     \* the CaseStudy objects open_casestudy has returned
    build       \* the build of a scenario in progress: its phases so far

\* the case study outside its scenario store, and the file system
kept == <<cs, files, opened, build>>

\* what the calls on the scenario store leave alone
others == <<run, cs, files, opened, build>>

vars == <<scens, heap, scen_vars, scen_df, last, pre, ops, run, cs, files, opened,
         build>>

-----------------------------------------------------------------------------
(* Bounds of the model *)

\* calls that add scenarios are made while fewer than MaxScens scenarios are
\* stored, the other calls while at most MaxScens are
MaxScens == 3
\* the largest nParetoPoints passed to add_scens
MaxPareto == 2
\* the largest number of combinations of a sweep passed to add_scens
MaxCombos == 4
\* the number of calls made on the scenarios and on the time window
MaxOps == 3
\* the number of time steps of the year
DtSize == 5
\* the number of files save writes
MaxFiles == 2
\* the number of times open_casestudy is called
MaxOpened == 1

-----------------------------------------------------------------------------
(* Optional arguments *)

None == [some |-> FALSE, v |-> ""]
Some(x) == [some |-> TRUE, v |-> x]

\* the names of a list of components
NameSet(names) == {names[i] : i \in 1..Len(names)}

-----------------------------------------------------------------------------
(* Values of parameters, variable bounds and sweep lists: Python ints,     *)
(* floats (as fractions n/d) and strings.                                  *)

RECURSIVE GCD(_, _)
GCD(a, b) == IF b = 0 THEN a ELSE GCD(b, a % b)

IntV(i) == [k |-> "int", n |-> i, d |-> 1, s |-> ""]
FloatV(n, d) == LET g == GCD(IF n < 0 THEN -n ELSE n, d)
               IN  [k |-> "float", n |-> n \div g, d |-> d \div g, s |-> ""]
StrV(s) == [k |-> "str", n |-> 0, d |-> 1, s |-> s]

\* Python's ==: an int and a float of the same value are equal
PyEq(a, b) ==
    IF a.k = "str" \/ b.k = "str"
    THEN a.k = b.k /\ a.s = b.s
    ELSE a.n * b.d = b.n * a.d

\* str(value)
PyStr(v) ==
    CASE v.k = "int" -> ToString(v.n)
      [] v.k = "str" -> v.s
      [] v.k = "float" /\ v.d = 1 -> ToString(v.n) \o ".0"
      [] v.k = "float" /\ v.d = 2 /\ v.n = 1 -> "0.5"
      [] v.k = "float" /\ v.d = 3 /\ v.n = 1 -> "0.3333333333333333"
      [] v.k = "float" /\ v.d = 3 /\ v.n = 2 -> "0.6666666666666666"
      [] v.k = "float" /\ v.d = 4 /\ v.n = 1 -> "0.25"
      [] v.k = "float" /\ v.d = 4 /\ v.n = 3 -> "0.75"

\* the texts of the model's names and values that hold a character which is
\* none of an identifier, and those that begin with a digit
NonIdentTexts == {"a-b", "no-such"}
DigitTexts == {"1", "2x"}

\* whether a text consists of identifier characters only, and whether it
\* begins as an identifier does
IdentText(s) == s \notin NonIdentTexts
StartsName(s) == s # "" /\ s \notin DigitTexts

\* whether str(value) consists of identifier characters only: the sign of a
\* negative number and the point of a float are none
IdentChars(v) ==
    CASE v.k = "int" -> v.n >= 0
      [] v.k = "str" -> IdentText(v.s)
      [] v.k = "float" -> FALSE

\* variant, not the program: np.linspace(0, 1, n, endpoint=False)
Linspace_NoEndpoint(n) == [i \in 1..n |-> FloatV(i - 1, n)]

\* np.linspace(0, 1, n)
Linspace(n) ==
    [i \in 1..n |-> IF n = 1 THEN FloatV(0, 1) ELSE FloatV(i - 1, n - 1)]

-----------------------------------------------------------------------------
(* The collectors of a scenario and the phases of the SEMDR components
   (src/draf/components/semdr_components.py). A phase is the list of what a
   component does to the collectors, in the order of its statements:
   sc.collector(name) declares a collector, c.<name>[key] = ... contributes
   to it, and a sum over c.<name>.values() reads the contributions it holds
   at that moment. *)

Declare(c) == [do |-> "declare", c |-> c, key |-> ""]
Contrib(c, key) == [do |-> "contribute", c |-> c, key |-> key]
SumOf(c) == [do |-> "sum", c |-> c, key |-> ""]
Dim(d) == [do |-> "dim", c |-> d, key |-> ""]
Raise(error) == [do |-> "raise", c |-> "", key |-> error]

\* the collectors of the SEMDR components: SEMDRGrid.param_func line 412,
\* SEMDRMain.param_func lines 515-528
SemdrCollectors ==
    {"P_EG_sell_T", "P_EL_source_T", "P_EL_sink_T", "dQ_cooling_source_TN",
     "dQ_cooling_sink_TN", "dQ_heating_source_TH", "dQ_heating_sink_TH",
     "C_TOT_", "C_TOT_op_", "CE_TOT_", "C_TOT_inv_", "C_TOT_invAnn_",
     "C_TOT_RMI_"}

\* the dimensions, the declared collectors with the contributions they hold,
\* the sums formed so far, and the error that ended the build
NoRegistry ==
    [dims |-> {}, declared |-> {}, held |-> [c \in SemdrCollectors |-> {}],
     sums |-> <<>>, error |-> ""]

\* SEMDRHVAC.dim_func, lines 93-96; the other components declare no dimension
dim_func(comp) ==
    IF comp = "SEMDRHVAC" THEN <<Dim("H"), Dim("N")>> ELSE <<>>

\* SEMDRGrid.param_func, line 412
SEMDRGrid_param_func == <<Declare("P_EG_sell_T")>>

\* SEMDRMain.param_func, lines 515-528
SEMDRMain_param_func(invest) ==
    <<Declare("P_EL_source_T"), Declare("P_EL_sink_T"),
      Declare("dQ_cooling_source_TN"), Declare("dQ_cooling_sink_TN"),
      Declare("dQ_heating_source_TH"), Declare("dQ_heating_sink_TH"),
      Declare("C_TOT_"), Declare("C_TOT_op_"), Declare("CE_TOT_")>>
    \o (IF invest
        THEN <<Declare("C_TOT_inv_"), Declare("C_TOT_invAnn_"),
               Declare("C_TOT_RMI_")>>
        ELSE <<>>)

\* the parameter phase of a component: SEMDRElectricDemand, SEMDRHVAC,
\* SEMDRBattery and SEMDRPV declare parameters and variables only
param_func(comp, invest) ==
    CASE comp = "SEMDRGrid" -> SEMDRGrid_param_func
      [] comp = "SEMDRMain" -> SEMDRMain_param_func(invest)
      [] OTHER -> <<>>

\* SEMDRElectricDemand.model_func, lines 48-66
SEMDRElectricDemand_model_func ==
    <<Contrib("P_EL_sink_T", "eDem"), Contrib("C_TOT_op_", "eDem_penalty")>>

\* SEMDRHVAC.model_func, lines 136-165
SEMDRHVAC_model_func ==
    <<Contrib("P_EL_sink_T", "HVAC"), Contrib("dQ_heating_source_TH", "HVAC"),
      Contrib("dQ_cooling_source_TN", "HVAC")>>

\* what a component with an investment adds: lines 267-272 and 356-361
Invests(key, invest) ==
    IF invest
    THEN <<Contrib("C_TOT_inv_", key), Contrib("C_TOT_invAnn_", key),
           Contrib("C_TOT_RMI_", key)>>
    ELSE <<>>

\* line 249, 100 * v.E_BES_T[t] / cap: without investment cap is the number
\* E_CAPx, and the division raises when it is 0; with investment cap is an
\* expression of the new capacity, and the division raises unless the
\* solver library builds nonlinear expressions
SocDivision(invest, bes) ==
    IF ~invest
    THEN (IF bes.E_CAPx = 0 THEN <<Raise("ZeroDivisionError")>> ELSE <<>>)
    ELSE (IF bes.nonlinear THEN <<>> ELSE <<Raise("GurobiError")>>)

\* SEMDRBattery.model_func, lines 237-272
SEMDRBattery_model_func(invest, bes) ==
    SocDivision(invest, bes)
    \o <<Contrib("P_EL_source_T", "BES"), Contrib("P_EL_sink_T", "BES")>>
    \o Invests("BES", invest)

\* SEMDRPV.model_func, lines 334-361
SEMDRPV_model_func(invest) ==
    <<Contrib("P_EL_source_T", "PV"), Contrib("P_EG_sell_T", "PV")>>
    \o Invests("PV", invest)

\* SEMDRGrid.model_func, lines 437-471: the feed-in collector is summed (lines
\* 447-451) before the grid's own contributions
SEMDRGrid_model_func ==
    <<SumOf("P_EG_sell_T"), Contrib("P_EL_source_T", "EG"),
      Contrib("P_EL_sink_T", "EG"), Contrib("C_TOT_op_", "EG_energy"),
      Contrib("C_TOT_op_", "EG_demand"), Contrib("CE_TOT_", "EG")>>

\* SEMDRMain.model_func, lines 546-587: the operating costs are summed (line
\* 554) before the maintenance costs are registered into them (line 561)
SEMDRMain_model_func(invest, dims) ==
    <<SumOf("C_TOT_op_"), Contrib("C_TOT_", "op")>>
    \o (IF invest
        THEN <<SumOf("C_TOT_inv_"), SumOf("C_TOT_RMI_"), SumOf("C_TOT_invAnn_"),
               Contrib("C_TOT_op_", "RMI"), Contrib("C_TOT_", "inv")>>
        ELSE <<>>)
    \o <<SumOf("C_TOT_"), SumOf("CE_TOT_"),
         SumOf("P_EL_source_T"), SumOf("P_EL_sink_T")>>
    \o (IF "N" \in dims
        THEN <<SumOf("dQ_cooling_source_TN"), SumOf("dQ_cooling_sink_TN")>>
        ELSE <<>>)
    \o (IF "H" \in dims
        THEN <<SumOf("dQ_heating_source_TH"), SumOf("dQ_heating_sink_TH")>>
        ELSE <<>>)

\* the model phase of a component
model_func(comp, invest, bes, dims) ==
    CASE comp = "SEMDRElectricDemand" -> SEMDRElectricDemand_model_func
      [] comp = "SEMDRHVAC" -> SEMDRHVAC_model_func
      [] comp = "SEMDRBattery" -> SEMDRBattery_model_func(invest, bes)
      [] comp = "SEMDRPV" -> SEMDRPV_model_func(invest)
      [] comp = "SEMDRGrid" -> SEMDRGrid_model_func
      [] comp = "SEMDRMain" -> SEMDRMain_model_func(invest, dims)

\* one statement of a phase applied to the registry: a collector that was
\* never declared is no attribute of the collectors, and naming it raises
Statement(reg, comp, e) ==
    CASE e.do = "dim" -> [reg EXCEPT !.dims = @ \cup {e.c}]
      [] e.do = "raise" -> [reg EXCEPT !.error = e.key]
      [] e.do = "declare" ->
            [reg EXCEPT !.declared = @ \cup {e.c}, !.held[e.c] = {}]
      [] e.c \notin reg.declared -> [reg EXCEPT !.error = "AttributeError"]
      [] e.do = "contribute" -> [reg EXCEPT !.held[e.c] = @ \cup {e.key}]
      [] e.do = "sum" ->
            [reg EXCEPT !.sums =
                Append(@, [by |-> comp, c |-> e.c, seen |-> reg.held[e.c]])]

\* the statements of a phase in their order, up to the first that raises
RECURSIVE Ran(_, _, _)
Ran(reg, comp, events) ==
    IF events = <<>> \/ reg.error # "" THEN reg
    ELSE Ran(Statement(reg, comp, Head(events)), comp, Tail(events))

\* the statements of one phase of a component
PhaseOf(phase, comp, invest, bes, dims) ==
    CASE phase = "dim" -> dim_func(comp)
      [] phase = "param" -> param_func(comp, invest)
      [] phase = "model" -> model_func(comp, invest, bes, dims)

\* one pass of a build: the components run a phase in their order, up to the
\* first that raises
RECURSIVE PassOver(_, _, _, _, _, _)
PassOver(reg, order, phase, invest, bes, i) ==
    IF i > Len(order) \/ reg.error # "" THEN reg
    ELSE PassOver(Ran(reg, order[i],
                      PhaseOf(phase, order[i], invest, bes, reg.dims)),
                  order, phase, invest, bes, i + 1)

\* the build of a scenario whose components are in their order: the
\* dimension pass, the parameter pass and the model pass
build_model(order, invest, bes) ==
    PassOver(PassOver(PassOver(NoRegistry, order, "dim", invest, bes, 1),
                      order, "param", invest, bes, 1),
             order, "model", invest, bes, 1)

-----------------------------------------------------------------------------
(* Scenario objects *)

NoRes == [has |-> FALSE, C_TOT_ |-> 0, CE_TOT_ |-> 0]
Res(c, ce) == [has |-> TRUE, C_TOT_ |-> c, CE_TOT_ |-> ce]

\* hasattr(sc, "res")
HasRes(sc) == sc.res.has

\* sc.components, and a scenario without the attribute
NoComponents == [has |-> FALSE, list |-> <<>>]
ComponentList(l) == [has |-> TRUE, list |-> l]

\* sc.collector_values: the contributions of every collector as realized by
\* a solve, and a scenario without them
NoValues == [has |-> FALSE, of |-> <<>>]
Realized(collectors) == [has |-> TRUE, of |-> collectors]

\* the collectors that receive a contribution after the build
CollectorNames == {"P_EL_sink_T", "C_TOT_"}

\* the time the parameter phase of a build is measured to take
BuildTimes == {FloatV(1, 2)}

\* a load profile, and the bounds a variable has when none is given
SeriesV(name) == [k |-> "series", n |-> 0, d |-> 1, s |-> name]
Inf == [k |-> "float", n |-> 1, d |-> 0, s |-> ""]
NegInf == [k |-> "float", n |-> -1, d |-> 0, s |-> ""]

\* the parameters SEMDRElectricDemand (lines 31-39) and SEMDRMain (lines
\* 535, 541-543) declare, with the time of the parameter phase
ScratchParams(t, invest) ==
    [p \in {"P_eDem_T", "k_eDem_flex_", "c_eDem_penalty_", "k_PTO_alpha_",
            "k_PTO_C_", "k_PTO_CE_", "t__params_"}
           \cup (IF invest THEN {"k__r_"} ELSE {}) |->
        CASE p = "P_eDem_T" -> SeriesV("H0")
          [] p = "k_eDem_flex_" -> FloatV(1, 20)
          [] p = "c_eDem_penalty_" -> IntV(100)
          [] p = "k__r_" -> FloatV(1, 25)
          [] p = "k_PTO_alpha_" -> FloatV(1, 10)
          [] p = "k_PTO_C_" -> IntV(1)
          [] p = "k_PTO_CE_" -> FloatV(1, 5000)
          [] p = "t__params_" -> t]

\* the variables SEMDRElectricDemand (lines 45-46) and SEMDRMain (lines
\* 530-538) declare, with their bounds
ScratchVars(invest) ==
    [x \in {"P_eDem_shed_T", "P_eDem_actual_T", "C_TOT_", "C_TOT_op_", "CE_TOT_"}
           \cup (IF invest THEN {"C_TOT_inv_", "C_TOT_invAnn_", "C_TOT_RMI_"}
                 ELSE {}) |->
        CASE x = "P_eDem_shed_T" -> [lb |-> IntV(0), ub |-> IntV(1000)]
          [] x \in {"C_TOT_", "C_TOT_op_", "CE_TOT_"} -> [lb |-> NegInf, ub |-> Inf]
          [] OTHER -> [lb |-> IntV(0), ub |-> Inf]]

\* the collectors a build has declared, with the contributions they hold
CollectorsOf(reg) == [c \in reg.declared |-> reg.held[c]]

\* the collectors after the build of the components SEMDRElectricDemand and
\* SEMDRMain, without and with investments
ScratchCollectors ==
    [invest \in BOOLEAN |->
        CollectorsOf(build_model(<<"SEMDRElectricDemand", "SEMDRMain">>, invest,
                                 [E_CAPx |-> 0, nonlinear |-> FALSE]))]

\* Scenario(id=..., components=..., consider_invest=...): the from-scratch
\* build with the components SEMDRElectricDemand and SEMDRMain. derived_from
\* is history, not a field of the program: the id of the base a derived
\* scenario was copied from.
NewScenario(id, name, t, invest) ==
    [id |-> id,
     name |-> name,
     derived_from |-> None,
     params |-> ScratchParams(t, invest),
     meta |-> ScratchVars(invest),
     vars |-> DOMAIN ScratchVars(invest),
     collectors |-> ScratchCollectors[invest],
     components |-> ComponentList(<<"SEMDRElectricDemand", "SEMDRMain">>),
     status |-> "NotSolved",
     collector_values |-> NoValues,
     res |-> NoRes]

\* Scenario._special_copy: a value copy, sharing nothing with the original
special_copy(sc) == sc

\* Collector.clear on every collector of a scenario
ClearCollectors(sc) ==
    [sc EXCEPT !.collectors = [c \in DOMAIN sc.collectors |-> {}]]

\* variant, not the program: the variables are deleted and the results are kept
DropSolved_KeepRes(sc) == [sc EXCEPT !.vars = {}]

\* delattr(sc, "res"); sc.vars.delete_all(): the variable objects go, the
\* declarations (vars._meta) stay
DropSolved(sc) == [sc EXCEPT !.res = NoRes, !.vars = {}]

\* variant, not the program: a key that names no entity becomes a new
\* parameter
update_param_Create(sc, key, value) ==
    IF key \in DOMAIN sc.meta
    THEN [sc |-> [sc EXCEPT !.meta[key] = [lb |-> value, ub |-> value]],
          result |-> "ok"]
    ELSE [sc |-> [sc EXCEPT !.params = [p \in DOMAIN sc.params \cup {key} |->
                                           IF p = key THEN value
                                           ELSE sc.params[p]]],
          result |-> "ok"]

\* Scenario.update_params with one key: a declared variable has both bounds
\* fixed, a parameter is overwritten, any other key is refused
update_param(sc, key, value) ==
    IF key \in DOMAIN sc.meta
    THEN [sc |-> [sc EXCEPT !.meta[key] = [lb |-> value, ub |-> value]],
          result |-> "ok"]
    ELSE IF key \in DOMAIN sc.params
    THEN [sc |-> [sc EXCEPT !.params[key] = value], result |-> "ok"]
    ELSE [sc |-> sc, result |-> "UnknownEntityError"]

\* the overrides of a call applied in the order given, up to the first that
\* is refused
RECURSIVE Overridden(_, _, _)
Overridden(sc, kwargs, i) ==
    IF i > Len(kwargs) THEN [sc |-> sc, result |-> "ok"]
    ELSE IF update_param(sc, kwargs[i].key, kwargs[i].value).result # "ok"
    THEN [sc |-> sc,
          result |-> update_param(sc, kwargs[i].key, kwargs[i].value).result]
    ELSE Overridden(update_param(sc, kwargs[i].key, kwargs[i].value).sc,
                    kwargs, i + 1)

\* Scenario.update_params(**overrides): the keys are taken one by one, in
\* the order given, and the call fails at the first that names no entity
update_params(sc, kwargs) == Overridden(sc, kwargs, 1)

\* sc.params.<key> = value: plain attribute assignment on the parameter store
SetParam(sc, key, value) ==
    [sc EXCEPT !.params = [p \in DOMAIN sc.params \cup {key} |->
                              IF p = key THEN value ELSE sc.params[p]]]

\* sc.get_entity(name)
HasEntity(sc, name) == name \in DOMAIN sc.params
get_entity(sc, name) == sc.params[name]

\* c.<collector>[key] = contribution
contribute(sc, c, key) == [sc EXCEPT !.collectors[c] = @ \cup {key}]

\* What the solver answers: a status and, when optimal, the objective values
Infeasible == [status |-> "Infeasible", C_TOT_ |-> 0, CE_TOT_ |-> 0]
Optimal(c, ce) == [status |-> "Optimal", C_TOT_ |-> c, CE_TOT_ |-> ce]
SolverOutcomes == {Infeasible, Optimal(2, 4), Optimal(6, 4)}

\* the statuses a solve can end with
NotOptimal(status) == [status |-> status, C_TOT_ |-> 0, CE_TOT_ |-> 0]
SolverStatuses ==
    {Optimal(2, 4), Infeasible, NotOptimal("Unbounded"), NotOptimal("TimeLimit"),
     NotOptimal("Error")}

\* Scenario.optimize: the model keeps the solver's status, res is attached on
\* Optimal only
solve(sc, out) ==
    [sc EXCEPT !.status = out.status,
               !.collector_values = IF out.status = "Optimal"
                                    THEN Realized(sc.collectors) ELSE NoValues,
               !.res = IF out.status = "Optimal"
                       THEN Res(out.C_TOT_, out.CE_TOT_) ELSE NoRes]

\* Scenario._is_optimal
is_optimal(sc) == sc.status = "Optimal"

\* Scenario.set_model: the declared variables are instantiated again, in a
\* model that is not solved yet
set_model(sc) == [sc EXCEPT !.vars = DOMAIN sc.meta, !.status = "NotSolved"]

-----------------------------------------------------------------------------
(* The scenario store *)

RECURSIVE IndexOf(_, _, _)
IndexOf(s, id, i) ==
    IF i > Len(s) THEN 0
    ELSE IF s[i].id = id THEN i ELSE IndexOf(s, id, i + 1)

\* CaseStudy.scens_ids
scens_ids(s) == [i \in 1..Len(s) |-> s[i].id]
IdSet(s) == {s[i].id : i \in 1..Len(s)}

\* variant, not the program: every scenario counts as valid
valid_scens_All(s, h) == IdSet(s)

\* CaseStudy.valid_scens, lines 152-155: the ids of the scenarios with results
valid_scens(s, h) == {s[i].id : i \in {k \in 1..Len(s) : HasRes(h[s[k].ref])}}

\* hasattr(self.scens, id)
HasScen(s, id) == IndexOf(s, id, 1) # 0

\* getattr(self.scens, id), for an id that is present
RefOf(s, id) == s[IndexOf(s, id, 1)].ref

\* setattr(self.scens, id, sc): a present id keeps its place and is rebound
SetAttr(s, id, r) ==
    IF HasScen(s, id)
    THEN [s EXCEPT ![IndexOf(s, id, 1)] = [id |-> id, ref |-> r]]
    ELSE Append(s, [id |-> id, ref |-> r])

\* delattr(self.scens, id), for an id that is present
DelAttr(s, id) ==
    LET k == IndexOf(s, id, 1)
    IN  [i \in 1..(Len(s) - 1) |-> IF i < k THEN s[i] ELSE s[i + 1]]

\* a reference not in use
NewRef(h) == CHOOSE r \in 1..(Cardinality(DOMAIN h) + 1) : r \notin DOMAIN h

\* References are opaque: after a call the objects the store still holds
\* are renumbered by the first place that refers to them, and the objects
\* nothing refers to any more are reclaimed.
Place(s, r) == CHOOSE i \in 1..Len(s) :
                   s[i].ref = r /\ \A j \in 1..(i - 1) : s[j].ref # r
Renumber(s) == [i \in 1..Len(s) |-> [id |-> s[i].id, ref |-> Place(s, s[i].ref)]]
Collect(s, h) ==
    [i \in {Place(s, s[j].ref) : j \in 1..Len(s)} |-> h[s[i].ref]]

World(s, h) == [scens |-> s, heap |-> h]

-----------------------------------------------------------------------------
(* CaseStudy.add_scen *)

Outcome(w, result, ref) == [w |-> w, result |-> result, ref |-> ref]

\* variant, not the program: the base object itself is renamed and stored under the new id
DeriveScen_Alias(w, id, name, based_on, components) ==
    IF components.some THEN Outcome(w, "RuntimeError", 0)
    ELSE IF ~HasScen(w.scens, based_on) THEN Outcome(w, "AttributeError", 0)
    ELSE
        LET b == RefOf(w.scens, based_on)
            h1 == IF HasRes(w.heap[b])
                  THEN [w.heap EXCEPT ![b] = ClearCollectors(w.heap[b])]
                  ELSE w.heap
            sc == IF HasRes(h1[b]) THEN DropSolved(h1[b]) ELSE h1[b]
            h2 == [h1 EXCEPT ![b] = [sc EXCEPT !.id = id, !.name = name,
                                               !.derived_from = Some(based_on)]]
        IN  Outcome(World(SetAttr(w.scens, id, b), h2), "ok", b)

\* variant, not the program: a base that is not found is replaced by the first scenario, as
\* REF_scen does
DeriveScen_Fallback(w, id, name, based_on, components) ==
    IF components.some THEN Outcome(w, "RuntimeError", 0)
    ELSE IF Len(w.scens) = 0 THEN Outcome(w, "AttributeError", 0)
    ELSE
        LET b == IF HasScen(w.scens, based_on)
                 THEN RefOf(w.scens, based_on) ELSE w.scens[1].ref
            h1 == IF HasRes(w.heap[b])
                  THEN [w.heap EXCEPT ![b] = ClearCollectors(w.heap[b])]
                  ELSE w.heap
            cp == special_copy(h1[b])
            sc == IF HasRes(cp) THEN DropSolved(cp) ELSE cp
            r == NewRef(h1)
            h2 == [x \in DOMAIN h1 \cup {r} |->
                     IF x = r
                     THEN [sc EXCEPT !.id = id, !.name = name,
                                     !.derived_from = Some(based_on)]
                     ELSE h1[x]]
        IN  Outcome(World(SetAttr(w.scens, id, r), h2), "ok", r)

\* variant, not the program: the components are checked after the collectors of a solved base
\* have been cleared
DeriveScen_LateCheck(w, id, name, based_on, components) ==
    IF ~HasScen(w.scens, based_on) THEN Outcome(w, "AttributeError", 0)
    ELSE
        LET b == RefOf(w.scens, based_on)
            h1 == IF HasRes(w.heap[b])
                  THEN [w.heap EXCEPT ![b] = ClearCollectors(w.heap[b])]
                  ELSE w.heap
            cp == special_copy(h1[b])
            sc == IF HasRes(cp) THEN DropSolved(cp) ELSE cp
            r == NewRef(h1)
            h2 == [x \in DOMAIN h1 \cup {r} |->
                     IF x = r
                     THEN [sc EXCEPT !.id = id, !.name = name,
                                     !.derived_from = Some(based_on)]
                     ELSE h1[x]]
        IN  IF components.some THEN Outcome(World(w.scens, h1), "RuntimeError", 0)
            ELSE Outcome(World(SetAttr(w.scens, id, r), h2), "ok", r)

\* lines 272-274: the collectors of a base that carries res are cleared, on
\* the base itself
BaseCleared(h, b) ==
    IF HasRes(h[b]) THEN [h EXCEPT ![b] = ClearCollectors(h[b])] ELSE h

\* lines 279-281, on the copy
DropIfSolved(cp) == IF HasRes(cp) THEN DropSolved(cp) ELSE cp

\* lines 283-286: the copy is given its id and name
Relabel(sc, id, name, based_on) ==
    [sc EXCEPT !.id = id, !.name = name, !.derived_from = Some(based_on)]

\* line 288: the object sc is created as r and stored under id
StoreScen(s, h, r, sc, id) ==
    Outcome(World(SetAttr(s, id, r),
                  [x \in DOMAIN h \cup {r} |-> IF x = r THEN sc ELSE h[x]]),
            "ok", r)

\* lines 276-288, for the base b in the heap h1 left by lines 272-274
CopyScen(s, h1, b, id, name, based_on) ==
    StoreScen(s, h1, NewRef(h1),
              Relabel(DropIfSolved(special_copy(h1[b])), id, name, based_on), id)

\* the derivation branch, lines 265-286 and 288
DeriveScen(w, id, name, based_on, components) ==
    IF components.some THEN Outcome(w, "RuntimeError", 0)
    ELSE IF ~HasScen(w.scens, based_on) THEN Outcome(w, "AttributeError", 0)
    ELSE CopyScen(w.scens, BaseCleared(w.heap, RefOf(w.scens, based_on)),
                  RefOf(w.scens, based_on), id, name, based_on)

\* the from-scratch branch, lines 244-264 and 288
ScratchScen(w, id, name, t) ==
    StoreScen(w.scens, w.heap, NewRef(w.heap),
              NewScenario(id, name, t, cs.dict.consider_invest), id)

\* the id add_scen stores the scenario under (lines 241-242) and the base it
\* derives from (lines 237-238), as the call resolves them
ScenId(s, id) == IF id.some THEN id.v ELSE "sc" \o ToString(Len(s))
BaseId(s, based_on, based_on_last) ==
    IF ~based_on_last THEN based_on
    ELSE IF Len(s) = 0 THEN None ELSE Some(s[Len(s)].id)

\* lines 244-288 once the base and the id are resolved
AddResolved(w, sid, name, bo, components, t) ==
    IF bo.some
    THEN DeriveScen(w, sid, name, bo.v, components)
    ELSE ScratchScen(w, sid, name, t)

add_scen(w, id, name, based_on, based_on_last, components, t) ==
    IF based_on_last /\ Len(w.scens) = 0 THEN Outcome(w, "IndexError", 0)
    ELSE AddResolved(w, ScenId(w.scens, id), name,
                     BaseId(w.scens, based_on, based_on_last), components, t)

-----------------------------------------------------------------------------
(* CaseStudy.add_scens *)

\* an entry of scen_vars: (long name, short name, values)
Entity(long, short, values) == [long |-> long, short |-> short, values |-> values]

\* pd.MultiIndex.from_product(value_lists): the first list varies slowest
RECURSIVE Product(_)
Product(lists) ==
    IF lists = <<>> THEN << <<>> >>
    ELSE LET h == Head(lists)
             rest == Product(Tail(lists))
         IN  [k \in 1..(Len(h) * Len(rest)) |->
                <<h[((k - 1) \div Len(rest)) + 1]>>
                    \o rest[((k - 1) % Len(rest)) + 1]]

\* line 337: every value list becomes a level of one dtype, so a list of
\* numbers of which one is a float makes every int of the list a float; line
\* 341: df.T has one dtype, so numeric columns of which one is float make
\* every int a float, and with a string column the values keep their types
HasKind(values, k) == \E j \in 1..Len(values) : values[j].k = k
AnyKind(sv, k) == \E i \in 1..Len(sv) : HasKind(sv[i].values, k)
Upcast(sv, i, v) ==
    IF /\ v.k = "int"
       /\ \/ HasKind(sv[i].values, "float") /\ ~HasKind(sv[i].values, "str")
          \/ AnyKind(sv, "float") /\ ~AnyKind(sv, "str")
    THEN FloatV(v.n, 1) ELSE v

\* "_".join(short + str(value)) over the entities of one combination
RECURSIVE JoinName(_, _, _)
JoinName(sv, row, i) ==
    IF i > Len(sv) THEN ""
    ELSE (IF i = 1 THEN "" ELSE "_") \o sv[i].short \o PyStr(row[i])
             \o JoinName(sv, row, i + 1)

\* whether the joined name begins as an identifier does: with its first
\* short name, or with the text of its first value when that name is empty
BeginsAsName(short, v, more) ==
    IF short # "" THEN StartsName(short)
    ELSE IF v.k = "str" THEN (IF v.s # "" THEN StartsName(v.s) ELSE more)
    ELSE FALSE

\* line 346, sc_name.isidentifier(): the joined name is not empty, begins
\* with a letter or an underscore and holds letters, digits and underscores
\* only
IsIdentifier(sv, row) ==
    /\ Len(sv) > 0
    /\ \A i \in 1..Len(sv) : IdentText(sv[i].short) /\ IdentChars(row[i])
    /\ BeginsAsName(sv[1].short, row[1], Len(sv) > 1)

\* the sweep table: one column per combination, named by the joined name
SweepTable(sv) ==
    LET rows == Product([i \in 1..Len(sv) |-> sv[i].values])
    IN  [k \in 1..Len(rows) |->
            LET row == [i \in 1..Len(sv) |-> Upcast(sv, i, rows[k][i])]
            IN  [name |-> JoinName(sv, row, 1), row |-> row,
                 ident |-> IsIdentifier(sv, row)]]

\* variant, not the program: a variable has its lower bound fixed only
RECURSIVE ApplyRow_LowerOnly(_, _, _, _)
ApplyRow_LowerOnly(sc, sv, row, i) ==
    IF i > Len(sv) THEN [sc |-> sc, result |-> "ok"]
    ELSE
        LET ent == sv[i].long
            raw == row[i]
        IN  IF raw.k = "str" /\ ~HasEntity(sc, raw.s)
            THEN [sc |-> sc, result |-> "KeyError"]
            ELSE
                LET value == IF raw.k = "str" THEN get_entity(sc, raw.s) ELSE raw
                IN  IF ent \in DOMAIN sc.meta
                    THEN ApplyRow_LowerOnly([sc EXCEPT !.meta[ent].lb = value],
                                            sv, row, i + 1)
                    ELSE LET u == update_param(sc, ent, value)
                         IN  IF u.result = "ok"
                             THEN ApplyRow_LowerOnly(u.sc, sv, row, i + 1)
                             ELSE u

\* lines 350-361: the entities of one combination are applied in turn
RECURSIVE ApplyRow(_, _, _, _)
ApplyRow(sc, sv, row, i) ==
    IF i > Len(sv) THEN [sc |-> sc, result |-> "ok"]
    ELSE
        LET ent == sv[i].long
            raw == row[i]
        IN  IF raw.k = "str" /\ ~HasEntity(sc, raw.s)
            THEN [sc |-> sc, result |-> "KeyError"]
            ELSE
                LET value == IF raw.k = "str" THEN get_entity(sc, raw.s) ELSE raw
                IN  IF ent \in DOMAIN sc.meta
                    THEN ApplyRow([sc EXCEPT !.meta[ent] =
                                       [lb |-> value, ub |-> value]],
                                  sv, row, i + 1)
                    ELSE LET u == update_param(sc, ent, value)
                         IN  IF u.result = "ok"
                             THEN ApplyRow(u.sc, sv, row, i + 1)
                             ELSE u

\* lines 348-361: t__params_ is reset, then the combination is applied
ApplyAfterReset(u0, sv, row) ==
    IF u0.result = "ok" THEN ApplyRow(u0.sc, sv, row, 1) ELSE u0

ApplyColumn(sc, sv, row) ==
    ApplyAfterReset(update_param(sc, "t__params_", IntV(0)), sv, row)

\* line 346: the id of the scenario of a column
ColumnId(w, col) ==
    IF col.ident THEN col.name ELSE "sc" \o ToString(Len(w.scens))

\* the scenario o.ref after lines 348-361 left it as u.sc
Applied(o, u, scen_id) ==
    [w |-> World(o.w.scens, [o.w.heap EXCEPT ![o.ref] = u.sc]),
     result |-> u.result, ids |-> <<scen_id>>]

\* variant, not the program: a scenario whose overrides are refused is taken
\* out of scens again
Generated_Unregister(o, sv, col, scen_id) ==
    IF o.result # "ok" THEN [w |-> o.w, result |-> o.result, ids |-> <<>>]
    ELSE IF ApplyColumn(o.w.heap[o.ref], sv, col.row).result # "ok"
    THEN [w |-> World(DelAttr(o.w.scens, scen_id), o.w.heap),
          result |-> ApplyColumn(o.w.heap[o.ref], sv, col.row).result,
          ids |-> <<scen_id>>]
    ELSE [w |-> World(o.w.scens,
                      [o.w.heap EXCEPT ![o.ref] =
                          ApplyColumn(o.w.heap[o.ref], sv, col.row).sc]),
          result |-> "ok", ids |-> <<scen_id>>]

\* lines 348-361 after add_scen answered o
Generated(o, sv, col, scen_id) ==
    IF o.result # "ok" THEN [w |-> o.w, result |-> o.result, ids |-> <<>>]
    ELSE Applied(o, ApplyColumn(o.w.heap[o.ref], sv, col.row), scen_id)

\* lines 344-361: one pass of the loop
SweepOne(w, sv, col, based_on, scen_id) ==
    Generated(add_scen(w, Some(scen_id), col.name, Some(based_on),
                       FALSE, None, FloatV(0, 1)),
              sv, col, scen_id)

\* lines 343-361: one scenario per column of the sweep table; the loop ends
\* with the first pass that raises
RECURSIVE SweepLoop(_, _, _, _, _, _)
SweepNext(p, sv, table, based_on, k, gen) ==
    IF p.result # "ok"
    THEN [w |-> p.w, result |-> p.result, gen |-> gen \o p.ids]
    ELSE SweepLoop(p.w, sv, table, based_on, k + 1, gen \o p.ids)

SweepLoop(w, sv, table, based_on, k, gen) ==
    IF k > Len(table) THEN [w |-> w, result |-> "ok", gen |-> gen]
    ELSE SweepNext(SweepOne(w, sv, table[k], based_on, ColumnId(w, table[k])),
                   sv, table, based_on, k, gen)

\* the scen_vars in effect, lines 325-332; None when none is given and
\* nParetoPoints = 0 (line 329 builds the error and does not raise it)
EffectiveScenVars(scen_vars_arg, nParetoPoints) ==
    LET sv0 == IF scen_vars_arg.some THEN scen_vars_arg
               ELSE IF nParetoPoints > 0 THEN Some(<<>>) ELSE None
    IN  IF nParetoPoints > 0
        THEN Some(Append(sv0.v, Entity("k_PTO_alpha_", "a", Linspace(nParetoPoints))))
        ELSE sv0

\* the number of combinations of a sweep
RECURSIVE Combinations(_)
Combinations(sv) ==
    IF ~sv.some \/ sv.v = <<>> THEN 0
    ELSE IF Len(sv.v) = 1 THEN Len(sv.v[1].values)
    ELSE Len(sv.v[1].values) * Combinations(Some(Tail(sv.v)))

\* lines 363-366: the base is removed when asked for, l being what the loop
\* left; delattr raises for a base that is not stored, which the loop lets
\* through when it makes no pass
RemoveBase(l, sv, table, remove_base, based_on) ==
    IF l.result = "ok" /\ remove_base /\ ~HasScen(l.w.scens, based_on)
    THEN [w |-> l.w, result |-> "AttributeError", gen |-> l.gen,
          scen_vars |-> sv, scen_df |-> table]
    ELSE [w |-> World(IF l.result = "ok" /\ remove_base
                      THEN DelAttr(l.w.scens, based_on) ELSE l.w.scens,
                      l.w.heap),
          result |-> l.result, gen |-> l.gen, scen_vars |-> sv,
          scen_df |-> table]

\* lines 336-366 for the table of the scen_vars in effect
SweepAll(w, sv, table, remove_base, based_on) ==
    RemoveBase(SweepLoop(w, sv.v, table, based_on, 1, <<>>),
               sv, table, remove_base, based_on)

\* lines 334-366 for the scen_vars in effect
SweepWith(w, df0, sv, remove_base, based_on) ==
    IF ~sv.some
    THEN [w |-> w, result |-> "TypeError", gen |-> <<>>,
          scen_vars |-> sv, scen_df |-> df0]
    ELSE IF sv.v = <<>>
    THEN [w |-> w, result |-> "ValueError", gen |-> <<>>,
          scen_vars |-> sv, scen_df |-> df0]
    ELSE SweepAll(w, sv, SweepTable(sv.v), remove_base, based_on)

\* the whole of add_scens: [w, result, gen, scen_vars, scen_df]
add_scens(w, df0, scen_vars_arg, nParetoPoints, remove_base, based_on) ==
    SweepWith(w, df0, EffectiveScenVars(scen_vars_arg, nParetoPoints),
              remove_base, based_on)

-----------------------------------------------------------------------------
(* CaseStudy.improve_pareto_norm_factors *)

\* variant, not the program: the disposable scenario of the second extreme point is kept
RECURSIVE ExtremePoints_KeepLast(_, _, _, _, _)
ExtremePoints_KeepLast(w, basis, outs, i, acc) ==
    IF i > 1 THEN [w |-> w, result |-> "ok", nC |-> acc.nC, nCE |-> acc.nCE]
    ELSE
        LET sid == ToString(i)
            o == add_scen(w, Some(sid), "pareto_improver", Some(basis),
                          FALSE, None, FloatV(0, 1))
        IN  IF o.result # "ok"
            THEN [w |-> w, result |-> o.result, nC |-> acc.nC, nCE |-> acc.nCE]
            ELSE
                LET sc == solve(set_model(SetParam(o.w.heap[o.ref],
                                                   "k_PTO_alpha_", IntV(i))),
                                outs[i + 1])
                    w2 == World(o.w.scens, [o.w.heap EXCEPT ![o.ref] = sc])
                IN  IF ~HasRes(sc)
                    THEN [w |-> w2, result |-> "AttributeError",
                          nC |-> acc.nC, nCE |-> acc.nCE]
                    ELSE ExtremePoints_KeepLast(
                             World(IF i = 0 THEN DelAttr(w2.scens, sid)
                                   ELSE w2.scens, w2.heap),
                             basis, outs, i + 1,
                             [nC |-> Append(acc.nC, sc.res.C_TOT_),
                              nCE |-> Append(acc.nCE, sc.res.CE_TOT_)])

\* lines 457-459: the disposable scenario is weighted, modelled and solved
SolveExtreme(sc, i, out) ==
    solve(set_model(SetParam(sc, "k_PTO_alpha_", IntV(i))), out)

\* lines 460-463 for the scenario o.ref solved as sc: reading sc.res raises
\* when the solve attached none
RECURSIVE ExtremePoints(_, _, _, _, _)
ExtremeSolved(o, sc, basis, outs, i, acc) ==
    IF ~HasRes(sc)
    THEN [w |-> World(o.w.scens, [o.w.heap EXCEPT ![o.ref] = sc]),
          result |-> "AttributeError", nC |-> acc.nC, nCE |-> acc.nCE]
    ELSE ExtremePoints(World(DelAttr(o.w.scens, ToString(i)),
                             [o.w.heap EXCEPT ![o.ref] = sc]),
                       basis, outs, i + 1,
                       [nC |-> Append(acc.nC, sc.res.C_TOT_),
                        nCE |-> Append(acc.nCE, sc.res.CE_TOT_)])

\* lines 457-463 after add_scen answered o
ExtremeAdded(o, basis, outs, i, acc) ==
    IF o.result # "ok"
    THEN [w |-> o.w, result |-> o.result, nC |-> acc.nC, nCE |-> acc.nCE]
    ELSE ExtremeSolved(o, SolveExtreme(o.w.heap[o.ref], i, outs[i + 1]),
                       basis, outs, i, acc)

\* lines 456-463: the two extreme points; acc holds nC and nCE
ExtremePoints(w, basis, outs, i, acc) ==
    IF i > 1 THEN [w |-> w, result |-> "ok", nC |-> acc.nC, nCE |-> acc.nCE]
    ELSE ExtremeAdded(add_scen(w, Some(ToString(i)), "pareto_improver",
                               Some(basis), FALSE, None, FloatV(0, 1)),
                      basis, outs, i, acc)

\* variant, not the program: the first collected value alone is used
NormFactor_FirstOnly(n) == FloatV(1000, n[1])

\* 1e3 / np.array(n).mean() for the two collected values
NormFactor(n) == FloatV(2000, n[1] + n[2])

\* lines 465-467: every stored scenario gets both factors
SetNormFactors(h, refs, kC, kCE) ==
    [r \in DOMAIN h |->
        IF r \in refs
        THEN SetParam(SetParam(h[r], "k_PTO_C_", kC), "k_PTO_CE_", kCE)
        ELSE h[r]]

\* lines 465-471 for what the loop left as e
FactorsSet(e) ==
    IF e.result # "ok"
    THEN [w |-> e.w, result |-> e.result, nC |-> e.nC, nCE |-> e.nCE]
    ELSE [w |-> World(e.w.scens,
                      SetNormFactors(e.w.heap,
                                     {e.w.scens[i].ref : i \in 1..Len(e.w.scens)},
                                     NormFactor(e.nC), NormFactor(e.nCE))),
          result |-> "ok", nC |-> e.nC, nCE |-> e.nCE]

improve_pareto_norm_factors(w, basis, outs) ==
    FactorsSet(ExtremePoints(w, basis, outs, 0, [nC |-> <<>>, nCE |-> <<>>]))

-----------------------------------------------------------------------------
(* CaseStudy.set_model, set_params, improve_pareto_and_set_model and
   import_scens *)

\* the objects of the scenarios in a list, or of all stored scenarios when no
\* list is given (lines 476-477, 492-493)
Selected(s, sel) ==
    IF sel.some THEN NameSet(sel.v) ELSE {s[i].ref : i \in 1..Len(s)}

\* lines 484-500: sc.set_model for every scenario of the selection
CaseStudy_set_model(w, sel) ==
    World(w.scens,
          [r \in DOMAIN w.heap |->
              IF r \in Selected(w.scens, sel) THEN set_model(w.heap[r])
              ELSE w.heap[r]])

\* Scenario.set_params(params_func): the function declares its parameter
\* and the time the phase took is kept
Scenario_set_params(sc, params_func, t) ==
    SetParam(SetParam(sc, params_func.key, params_func.value), "t__params_", t)

\* lines 473-482: sc.set_params for every scenario of the selection
CaseStudy_set_params(w, params_func, sel, t) ==
    World(w.scens,
          [r \in DOMAIN w.heap |->
              IF r \in Selected(w.scens, sel)
              THEN Scenario_set_params(w.heap[r], params_func, t)
              ELSE w.heap[r]])

\* lines 437-441: set_model runs when improve_pareto_norm_factors returned
ThenModelSet(m) ==
    IF m.result # "ok" THEN m
    ELSE [m EXCEPT !.w = CaseStudy_set_model(m.w, None)]

improve_pareto_and_set_model(w, outs) ==
    ThenModelSet(improve_pareto_norm_factors(w, "REF", outs))

\* lines 617-624: the ids of the other case study that are imported
ScensToImport(other, exclude, include) ==
    ({other[i].id : i \in 1..Len(other)}
        \ (IF exclude.some THEN NameSet(exclude.v) ELSE {}))
    \cap (IF include.some THEN NameSet(include.v)
          ELSE {other[i].id : i \in 1..Len(other)})

\* lines 626-628: every scenario of the other case study that is imported
\* is bound under its id, the object itself, in the order of the other store
RECURSIVE ImportLoop(_, _, _, _)
ImportLoop(w, other, names, i) ==
    IF i > Len(other) THEN w
    ELSE IF other[i].id \notin names THEN ImportLoop(w, other, names, i + 1)
    ELSE ImportLoop(World(SetAttr(w.scens, other[i].id, NewRef(w.heap)),
                          [r \in DOMAIN w.heap \cup {NewRef(w.heap)} |->
                              IF r = NewRef(w.heap) THEN other[i]
                              ELSE w.heap[r]]),
                    other, names, i + 1)

\* lines 607-628
import_scens(w, other, exclude, include) ==
    ImportLoop(w, other, ScensToImport(other, exclude, include), 1)

-----------------------------------------------------------------------------
(* Inputs *)

\* the sweeps passed to add_scens
PenaltySweep == Entity("c_eDem_penalty_", "x", <<IntV(1), IntV(2)>>)
ShedSweep == Entity("P_eDem_shed_T", "v", <<IntV(0), IntV(5)>>)
NegativeSweep == Entity("c_eDem_penalty_", "x", <<IntV(-1), IntV(-2)>>)
NamedSweep == Entity("c_eDem_penalty_", "x", <<StrV("k_PTO_C_")>>)
MixedSweep == Entity("c_eDem_penalty_", "x", <<IntV(1), FloatV(1, 2)>>)
UnnamedSweep == Entity("c_eDem_penalty_", "", <<IntV(1), IntV(2)>>)
CopySweep == Entity("k_PTO_C_", "k", <<StrV("k_PTO_CE_")>>)
EmptySweep == Entity("c_eDem_penalty_", "x", <<>>)
Sweeps == {<<PenaltySweep>>, <<PenaltySweep, ShedSweep>>, <<NegativeSweep>>,
           <<ShedSweep, NamedSweep>>, <<MixedSweep, CopySweep>>,
           <<UnnamedSweep>>, <<EmptySweep>>}

\* sweeps that fail partway: an entity that does not exist, and a value that
\* names an entity that does not exist in the second combination
UnknownSweep == Entity("nope", "n", <<IntV(1), IntV(2)>>)
LateSweep == Entity("c_eDem_penalty_", "x", <<StrV("k_PTO_C_"), StrV("nope")>>)
FailingSweeps == {<<UnknownSweep>>, <<LateSweep>>, <<PenaltySweep, UnknownSweep>>}

UserIds == {"REF", "x1"}
Components == <<"SEMDRElectricDemand", "SEMDRMain">>

UpdateKeys == {"c_eDem_penalty_", "P_eDem_shed_T", "nope"}
UpdateValues == {IntV(7)}
ContributorKeys == {"HVAC"}

\* the functions passed to set_params: each declares one parameter
ParamFuncs == {[key |-> "c_eDem_penalty_", value |-> IntV(50)],
               [key |-> "k_new_", value |-> IntV(1)]}

\* the scenarios of the case studies that are imported from: a solved REF,
\* and an unsolved REF with a solved x1
OtherStores ==
    {<<solve(NewScenario("REF", "", FloatV(1, 2), FALSE), Optimal(2, 4))>>,
     <<NewScenario("REF", "", FloatV(1, 2), FALSE),
       solve(NewScenario("x1", "x1", FloatV(0, 1), FALSE), Optimal(6, 4))>>}

-----------------------------------------------------------------------------
(* Python sequences: positions count from 0, negative ones from the end *)

\* whether seq[k] exists
InRange(seq, k) == -Len(seq) <= k /\ k < Len(seq)

\* seq[k]
PyIndex(seq, k) == IF k < 0 THEN seq[Len(seq) + k + 1] ELSE seq[k + 1]

\* a bound of a slice, brought into 0..n
SliceBound(n, k) ==
    IF k < 0 THEN (IF n + k < 0 THEN 0 ELSE n + k)
    ELSE (IF k > n THEN n ELSE k)

\* seq[a:b]
PySlice(seq, a, b) ==
    SubSeq(seq, SliceBound(Len(seq), a) + 1, SliceBound(Len(seq), b))

-----------------------------------------------------------------------------
(* The CaseStudy object: its identity and its __dict__ without the scenario
   store, which is the variables scens and heap *)

\* an absent integer argument
Absent == [some |-> FALSE, v |-> 0]

\* hp.make_datetimeindex(year, freq): the time steps of the year
make_datetimeindex == [i \in 1..DtSize |-> [step |-> i - 1]]

\* CsPlotter(cs=self), and an object without the attribute plot
NoPlot == [has |-> FALSE, cs |-> ""]
CsPlotter(self) == [has |-> TRUE, cs |-> self]

\* CaseStudy(name=..., consider_invest=..., obj_vars=...), lines 71-97, with
\* _set_dtindex, datetime_handler.py lines 69-82
CaseStudy(self, a) ==
    [self |-> self,
     dict |-> [name |-> a.name,
               year |-> a.year,
               freq |-> a.freq,
               consider_invest |-> a.consider_invest,
               obj_vars |-> a.obj_vars,
               dtindex |-> make_datetimeindex,
               dtindex_custom |-> make_datetimeindex,
               t1 |-> 0,
               t2 |-> Len(make_datetimeindex) - 1,
               plot |-> CsPlotter(self)]]

\* the arguments of the constructor: the defaults, and others
DefaultArgs ==
    [name |-> "test", year |-> 2019, freq |-> "60min", consider_invest |-> FALSE,
     obj_vars |-> <<"C_TOT_", "CE_TOT_">>]
ConstructorArgs ==
    {DefaultArgs,
     [name |-> "semdr", year |-> 2020, freq |-> "30min", consider_invest |-> TRUE,
      obj_vars |-> <<"CE_TOT_", "C_TOT_">>]}

\* no CaseStudy object
NoCaseStudy ==
    [self |-> "",
     dict |-> [name |-> "", year |-> 0, freq |-> "", consider_invest |-> FALSE,
               obj_vars |-> <<>>, dtindex |-> <<>>, dtindex_custom |-> <<>>,
               t1 |-> 0, t2 |-> 0, plot |-> NoPlot]]

\* variant, not the program: the frequencies accepted before the
\* minute-level ones were added
ValidFreqs_QuarterHourly == {"15min", "30min", "60min"}

\* case_study.py line 84 and datetime_handler.py line 74: valid_freqs
ValidFreqs == {"1min", "5min", "15min", "30min", "60min"}

\* datetime_handler.py line 71: range(1980, 2100)
ValidYears == 1980..2099

\* the attributes of the window, set by _set_dtindex lines 79-82
WindowAttrs == {"dtindex", "dtindex_custom", "_t1", "_t2"}

\* the attributes __init__ sets, lines 87-97 and _set_dtindex 77-82
AllAttrs ==
    {"name", "doc", "year", "freq", "country", "consider_invest", "coords",
     "scens", "plot", "obj_vars", "mdl_language"} \cup WindowAttrs

\* CaseStudy.__init__, lines 83-97: the frequency is asserted first (line
\* 85), the year in _set_dtindex (datetime_handler.py line 71) after name
\* and doc are set; attrs are the attributes set when __init__ ended. A
\* constructor that raises yields no object.
construct(self, a) ==
    IF a.freq \notin ValidFreqs
    THEN [result |-> "AssertionError", attrs |-> {}, cs |-> NoCaseStudy]
    ELSE IF a.year \notin ValidYears
    THEN [result |-> "AssertionError", attrs |-> {"name", "doc"}, cs |-> NoCaseStudy]
    ELSE [result |-> "ok", attrs |-> AllAttrs, cs |-> CaseStudy(self, a)]

\* the frequencies and years CaseStudy is constructed with
NewArgs ==
    {[DefaultArgs EXCEPT !.freq = f, !.year = y] :
        f \in {"1min", "5min", "15min", "30min", "60min", "1h", "10min", "60"},
        y \in {1979, 2020}}

\* _get_integer_locations, datetime_handler.py lines 101-112, for integer
\* start and end
get_integer_locations(size, start, steps, end) ==
    CASE steps.some /\ ~end.some ->
            IF start + steps.v < size
            THEN [result |-> "ok", t1 |-> start, t2 |-> start + steps.v - 1]
            ELSE [result |-> "AssertionError", t1 |-> start, t2 |-> start]
      [] ~steps.some /\ end.some ->
            [result |-> "ok", t1 |-> start, t2 |-> end.v]
      [] ~steps.some /\ ~end.some ->
            [result |-> "ok", t1 |-> start, t2 |-> size - 1]
      [] OTHER ->
            [result |-> "ValueError", t1 |-> start, t2 |-> start]

\* variant, not the program: only the first element of the window is checked
WindowAsserts_FirstOnly(custom, full, t1, t2) ==
    IF custom = <<>> \/ ~InRange(full, t1) THEN "IndexError"
    ELSE IF custom[1] # PyIndex(full, t1) THEN "AssertionError"
    ELSE "ok"

\* set_time_horizon lines 420-421: the two asserts, which index the window
\* and the full index
WindowAsserts(custom, full, t1, t2) ==
    IF custom = <<>> \/ ~InRange(full, t1) THEN "IndexError"
    ELSE IF custom[1] # PyIndex(full, t1) THEN "AssertionError"
    ELSE IF ~InRange(full, t2) THEN "IndexError"
    ELSE IF custom[Len(custom)] # PyIndex(full, t2) THEN "AssertionError"
    ELSE "ok"

\* lines 422-424: the bounds are stored when the asserts have passed
WindowStored(d, t1, t2, result) ==
    IF result = "ok"
    THEN [dict |-> [d EXCEPT !.t1 = t1, !.t2 = t2], result |-> "ok"]
    ELSE [dict |-> d, result |-> result]

\* lines 419-421: the window is sliced out of the full index and assigned,
\* then checked
WindowSliced(d, t1, t2, custom) ==
    WindowStored([d EXCEPT !.dtindex_custom = custom], t1, t2,
                 WindowAsserts(custom, d.dtindex, t1, t2))

\* line 418: the locations are computed, or the call raises
WindowLocated(d, loc) ==
    IF loc.result # "ok" THEN [dict |-> d, result |-> loc.result]
    ELSE WindowSliced(d, loc.t1, loc.t2, PySlice(d.dtindex, loc.t1, loc.t2 + 1))

\* CaseStudy.set_time_horizon(start, steps, end), lines 405-424
set_time_horizon(d, start, steps, end) ==
    WindowLocated(d, get_integer_locations(Len(d.dtindex), start, steps, end))

\* the integer arguments set_time_horizon is called with: start and steps,
\* start and end, start alone, and all three
Starts == -1..DtSize
WindowArgs ==
    {[start |-> a, steps |-> Some(n), end |-> Absent] :
        a \in Starts, n \in 0..(DtSize + 1)}
    \cup {[start |-> a, steps |-> Absent, end |-> Some(b)] :
        a \in Starts, b \in -2..DtSize}
    \cup {[start |-> a, steps |-> Absent, end |-> Absent] : a \in Starts}
    \cup {[start |-> 0, steps |-> Some(2), end |-> Some(1)]}

\* the window of a case study: its bounds and its slice of the index
Window(d) == [t1 |-> d.t1, t2 |-> d.t2, custom |-> d.dtindex_custom]

\* hp.int_from_freq(freq): the minutes of a time step
int_from_freq(freq) ==
    CASE freq = "1min" -> 1
      [] freq = "5min" -> 5
      [] freq = "15min" -> 15
      [] freq = "30min" -> 30
      [] freq = "60min" -> 60

\* datetime_handler.py line 131: int(horizon_hours * 60 / int_from_freq(freq));
\* every valid frequency divides 60, so the quotient is exact
StepsFor(hours, freq) == (hours * 60) \div int_from_freq(freq)

\* variant, not the program: a horizon longer than the index is cut to the
\* length of the index
StepsAhead_Full(steps, size) == IF steps > size THEN size ELSE steps

\* lines 132-134: a horizon longer than the index is cut to size - 1 steps
StepsAhead(steps, size) == IF steps > size THEN size - 1 ELSE steps

\* min(a, b)
Min(a, b) == IF a <= b THEN a ELSE b

\* lines 136-137: _t2 and dtindex_custom are assigned
RolledTo(d, t2) ==
    [d EXCEPT !.t2 = t2, !.dtindex_custom = PySlice(d.dtindex, d.t1, t2 + 1)]

\* variant, not the program: the horizon is counted from the end of the
\* window
set_rolling_horizon_FromEnd(d, hours) ==
    RolledTo(d, Min(d.t2 + StepsAhead(StepsFor(hours, d.freq), Len(d.dtindex)) - 1,
                    Len(d.dtindex) - 1))

\* DateTimeHandler.set_rolling_horizon(horizon_hours), lines 125-137
set_rolling_horizon(d, hours) ==
    RolledTo(d, Min(d.t1 + StepsAhead(StepsFor(hours, d.freq), Len(d.dtindex)) - 1,
                    Len(d.dtindex) - 1))

\* the horizons set_rolling_horizon is called with
Hours == -1..(DtSize + 1)

\* the record of a call: its name, its arguments and its outcome
Call(op) ==
    [op |-> op, id |-> None, based_on |-> None, based_on_last |-> FALSE,
     components |-> FALSE, result |-> "ok", key |-> "", gen |-> <<>>,
     sid |-> "", base |-> None, nC |-> <<>>, nCE |-> <<>>,
     batch |-> <<>>, outs |-> <<>>, msg |-> FALSE, solved |-> <<>>,
     added |-> <<>>, list |-> <<>>, parallel |-> FALSE, tasks |-> <<>>,
     start |-> 0, steps |-> Absent, end |-> Absent, dump |-> "", file |-> 0, fp |-> 0,
     freq |-> "", year |-> 0, attrs |-> {},
     names |-> <<>>, deps |-> <<>>, order |-> <<>>,
     hours |-> 0, again |-> FALSE, was |-> [t1 |-> 0, t2 |-> 0, custom |-> <<>>],
     scen_vars |-> None, nParetoPoints |-> 0, remove_base |-> FALSE,
     kwargs |-> <<>>, comps |-> <<>>, fetch |-> <<>>,
     other |-> <<>>, exclude |-> None, include |-> None,
     schema |-> [iot_core_topics |-> <<>>, device_schemas |-> <<>>]]

-----------------------------------------------------------------------------
(* Actions *)

Finish(w, call) ==
    /\ scens' = Renumber(w.scens)
    /\ heap' = Collect(w.scens, w.heap)
    /\ last' = call
    /\ pre' = World(scens, heap)
    /\ ops' = ops + 1
    /\ UNCHANGED others

\* the call returned or raised as o says
Returned(o, call) == Finish(o.w, [call EXCEPT !.result = o.result])

AddScen ==
    /\ ops < MaxOps
    /\ Len(scens) < MaxScens
    /\ \E id \in {None} \cup {Some(i) : i \in UserIds},
          based_on \in {None} \cup {Some(i) : i \in UserIds},
          based_on_last \in BOOLEAN,
          withComponents \in BOOLEAN,
          t \in BuildTimes :
        \* a from-scratch scenario is given its components
        /\ based_on.some \/ based_on_last \/ withComponents
        \* based_on is not read when based_on_last is set: it keeps its default
        /\ based_on_last => based_on = Some("REF")
        /\ Returned(add_scen(World(scens, heap), id, "", based_on, based_on_last,
                              IF withComponents THEN Some(Components) ELSE None, t),
                     [Call("add_scen") EXCEPT
                        !.id = id, !.based_on = based_on,
                        !.based_on_last = based_on_last,
                        !.components = withComponents,
                        !.sid = ScenId(scens, id),
                        !.base = BaseId(scens, based_on, based_on_last)])
    /\ UNCHANGED <<scen_vars, scen_df>>

\* CaseStudy.optimize(scens, parallel=False), lines 545-567: every scenario
\* of the list is solved in turn
RECURSIVE OptimizeFrom(_, _, _, _)
OptimizeFrom(h, refs, outs, i) ==
    IF i > Len(refs) THEN h
    ELSE OptimizeFrom([h EXCEPT ![refs[i]] = solve(h[refs[i]], outs[i])],
                      refs, outs, i + 1)

\* variant, not the program: the message is printed when some scenario of
\* the batch is optimal
AllOptimal_Any(h, refs) == \E i \in 1..Len(refs) : is_optimal(h[refs[i]])

\* line 562: all([sc._is_optimal for sc in scens])
AllOptimal(h, refs) == \A i \in 1..Len(refs) : is_optimal(h[refs[i]])

\* lines 562-570: the success message is printed or not, and optimize returns
Optimized(h, refs, call) ==
    Finish(World(scens, h), [call EXCEPT !.msg = AllOptimal(h, refs)])

\* cs.optimize() or cs.optimize(scens=[sc]), the solver answering with one
\* of the given outcomes for every scenario
OptimizeWith(outcomes) ==
    /\ ops < MaxOps
    /\ Len(scens) <= MaxScens
    /\ \E list \in {[i \in 1..Len(scens) |-> scens[i].ref]}
                  \cup {<<scens[i].ref>> : i \in 1..Len(scens)} :
       \E outs \in [1..Len(list) -> outcomes] :
          Optimized(OptimizeFrom(heap, list, outs, 1), list,
                    [Call("optimize") EXCEPT
                       !.id = IF Len(list) = 1 /\ Len(scens) > 0
                              THEN Some(heap[list[1]].id) ELSE None,
                       !.batch = [i \in 1..Len(list) |-> heap[list[i]].id],
                       !.outs = outs])
    /\ UNCHANGED <<scen_vars, scen_df>>

Optimize == OptimizeWith(SolverOutcomes)

\* sc.update_params(key=value) on a stored scenario
UpdateParams ==
    /\ ops < MaxOps
    /\ Len(scens) <= MaxScens
    /\ \E i \in 1..Len(scens), key \in UpdateKeys, value \in UpdateValues :
          LET r == scens[i].ref
              u == update_param(heap[r], key, value)
          IN  Finish(World(scens, [heap EXCEPT ![r] = u.sc]),
                     [Call("update_params") EXCEPT
                        !.id = Some(scens[i].id), !.key = key,
                        !.result = u.result])
    /\ UNCHANGED <<scen_vars, scen_df>>

\* a collector of a stored scenario receives a contribution
Contribute ==
    /\ ops < MaxOps
    /\ Len(scens) <= MaxScens
    /\ \E i \in 1..Len(scens), c \in CollectorNames, key \in ContributorKeys :
          LET r == scens[i].ref
          IN  Finish(World(scens, [heap EXCEPT ![r] = contribute(heap[r], c, key)]),
                     [Call("contribute") EXCEPT
                        !.id = Some(scens[i].id), !.key = c])
    /\ UNCHANGED <<scen_vars, scen_df>>

\* add_scens returned or raised as a says; lines 334 and 341 have set
\* scen_vars and scen_df
Swept(a, call) ==
    /\ Finish(a.w, [call EXCEPT !.result = a.result, !.gen = a.gen])
    /\ scen_vars' = a.scen_vars
    /\ scen_df' = a.scen_df

\* cs.add_scens(scen_vars, nParetoPoints, remove_base, based_on) with one of
\* the given sweeps
AddScensWith(sweeps) ==
    /\ ops < MaxOps
    /\ Len(scens) < MaxScens
    /\ \E scen_vars_arg \in {None} \cup {Some(sv) : sv \in sweeps},
          nParetoPoints \in 0..MaxPareto,
          remove_base \in BOOLEAN,
          based_on \in {"REF", "x1"} :
          /\ Combinations(EffectiveScenVars(scen_vars_arg, nParetoPoints)) <= MaxCombos
          /\ Swept(add_scens(World(scens, heap), scen_df, scen_vars_arg,
                             nParetoPoints, remove_base, based_on),
                   [Call("add_scens") EXCEPT
                      !.based_on = Some(based_on),
                      !.remove_base = remove_base,
                      !.nParetoPoints = nParetoPoints,
                      !.scen_vars = scen_vars_arg])

AddScens == AddScensWith(Sweeps)

\* improve_pareto_norm_factors returned or raised as m says, having observed
\* m.nC and m.nCE in the extreme-point solves
Improved(m, call) ==
    Finish(m.w, [call EXCEPT !.result = m.result, !.nC = m.nC, !.nCE = m.nCE])

ImproveParetoNormFactors ==
    /\ ops < MaxOps
    /\ Len(scens) < MaxScens
    /\ \E basis \in {"REF", "x1"}, outs \in [1..2 -> SolverOutcomes] :
          Improved(improve_pareto_norm_factors(World(scens, heap), basis, outs),
                   [Call("improve_pareto_norm_factors") EXCEPT
                      !.based_on = Some(basis)])
    /\ UNCHANGED <<scen_vars, scen_df>>

\* no scenario is being built
NoBuild ==
    [kind |-> "idle", added |-> <<>>, invest |-> FALSE,
     bes |-> [E_CAPx |-> 0, nonlinear |-> FALSE], order |-> <<>>,
     phase |-> "", pos |-> 0, reg |-> NoRegistry, trace |-> <<>>, result |-> ""]

\* no optimize call is in progress
NoRun ==
    [kind |-> "idle", live |-> <<>>, frozen |-> <<>>, log |-> <<>>,
     outs |-> <<>>, added |-> <<>>, tasks |-> <<>>, ray |-> FALSE]

InitWith(a) ==
    /\ cs = CaseStudy("cs", a)
    /\ files = <<>>
    /\ opened = <<>>
    /\ ops = 0
    /\ scens = <<>>
    /\ heap = <<>>
    /\ scen_vars = None
    /\ scen_df = <<>>
    /\ last = Call("init")
    /\ pre = World(<<>>, <<>>)
    /\ run = NoRun
    /\ build = NoBuild

Init == InitWith(DefaultArgs)

\* the argument scens: None, or a list of the scenario stored at place i
ListOfOne(s, i) == IF i = 0 THEN None ELSE Some(<<s[i].ref>>)

\* cs.set_model(model_func, scens=...)
SetModel ==
    /\ ops < MaxOps
    /\ \E i \in 0..Len(scens) :
          Finish(CaseStudy_set_model(World(scens, heap), ListOfOne(scens, i)),
                 [Call("set_model") EXCEPT
                    !.list = IF i = 0 THEN <<>> ELSE <<scens[i].id>>])
    /\ UNCHANGED <<scen_vars, scen_df>>

\* cs.set_params(params_func, scens=...)
SetParams ==
    /\ ops < MaxOps
    /\ \E i \in 0..Len(scens), params_func \in ParamFuncs, t \in BuildTimes :
          Finish(CaseStudy_set_params(World(scens, heap), params_func,
                                      ListOfOne(scens, i), t),
                 [Call("set_params") EXCEPT
                    !.key = params_func.key,
                    !.list = IF i = 0 THEN <<>> ELSE <<scens[i].id>>])
    /\ UNCHANGED <<scen_vars, scen_df>>

\* cs.improve_pareto_and_set_model(model_func)
ImproveParetoAndSetModel ==
    /\ ops < MaxOps
    /\ Len(scens) < MaxScens
    /\ \E outs \in [1..2 -> SolverOutcomes] :
          Improved(improve_pareto_and_set_model(World(scens, heap), outs),
                   [Call("improve_pareto_and_set_model") EXCEPT
                      !.based_on = Some("REF")])
    /\ UNCHANGED <<scen_vars, scen_df>>

\* cs.import_scens(other_cs, exclude, include)
ImportScens ==
    /\ ops < MaxOps
    /\ \E other \in OtherStores,
          exclude \in {None, Some(<<"REF">>)},
          include \in {None, Some(<<"REF">>)} :
          /\ Cardinality(IdSet(scens) \cup ScensToImport(other, exclude, include))
                 <= MaxScens
          /\ Finish(import_scens(World(scens, heap), other, exclude, include),
                    [Call("import_scens") EXCEPT
                       !.other = other, !.exclude = exclude,
                       !.include = include])
    /\ UNCHANGED <<scen_vars, scen_df>>

Next ==
    \/ AddScen
    \/ Optimize
    \/ UpdateParams
    \/ Contribute
    \/ AddScens
    \/ ImproveParetoNormFactors
    \/ SetModel
    \/ SetParams
    \/ ImproveParetoAndSetModel
    \/ ImportScens

Spec == Init /\ [][Next]_vars

\* the overrides of one call: one or two keys, each with a value
Overrides ==
    {<<[key |-> k, value |-> v]>> : k \in UpdateKeys, v \in UpdateValues}
    \cup {q \in {<<[key |-> k1, value |-> v], [key |-> k2, value |-> v]>> :
                    k1 \in UpdateKeys, k2 \in UpdateKeys, v \in UpdateValues} :
             q[1].key # q[2].key}

\* the scenario r as the call left it
Updated(r, u, call) ==
    Finish(World(scens, [heap EXCEPT ![r] = u.sc]),
           [call EXCEPT !.result = u.result])

\* sc.update_params(k1=v, k2=v, ...) on a stored scenario
UpdateMany ==
    /\ ops < MaxOps
    /\ Len(scens) <= MaxScens
    /\ \E i \in 1..Len(scens), kwargs \in Overrides :
          Updated(scens[i].ref, update_params(heap[scens[i].ref], kwargs),
                  [Call("update_params") EXCEPT
                     !.id = Some(scens[i].id), !.kwargs = kwargs])
    /\ UNCHANGED <<scen_vars, scen_df>>

NextUpdate ==
    \/ AddScen
    \/ UpdateMany

SpecUpdate == Init /\ [][NextUpdate]_vars

\* scenarios are added, one by one and by sweeps of which some fail partway
SweepAny == AddScensWith(FailingSweeps \cup {<<PenaltySweep>>, <<EmptySweep>>})

NextSweep ==
    \/ AddScen
    \/ SweepAny

SpecSweep == Init /\ [][NextSweep]_vars

\* scenarios are added and solved, the solver ending with any status
SolveAny == OptimizeWith(SolverStatuses)

NextSolve ==
    \/ AddScen
    \/ SolveAny

SpecSolve == Init /\ [][NextSolve]_vars

-----------------------------------------------------------------------------
(* CaseStudy.optimize(scens, parallel=False), step by step: the caller's list
   may grow while the batch runs *)

\* the ids of the objects of a list
IdsOf(h, refs) == [i \in 1..Len(refs) |-> h[refs[i]].id]

\* variant, not the program: the loop runs over the caller's list itself
Batch_Live(r) == r.live

\* line 557: scens = tuple(scens); the loop of line 560 runs over the tuple
Batch(r) == r.frozen

\* the scenarios are added before the batch starts
SeqSetup ==
    /\ run.kind = "idle"
    /\ AddScen

\* lines 548-558: optimize is called with a list of stored scenarios, or with
\* None for self.scens_list, and freezes it
SeqBegin ==
    /\ run.kind = "idle"
    /\ ops < MaxOps
    /\ Len(scens) > 0
    /\ \E list \in {[i \in 1..Len(scens) |-> scens[i].ref],
                     [i \in 1..Len(scens) |-> scens[Len(scens) + 1 - i].ref]} :
          run' = [NoRun EXCEPT !.kind = "seq", !.live = list, !.frozen = list,
                               !.ray = run.ray]
    /\ ops' = ops + 1
    /\ UNCHANGED <<scens, heap, scen_vars, scen_df, last, pre>>
    /\ UNCHANGED kept

\* lines 560-562: the next scenario of the batch is solved
SeqSolve ==
    /\ run.kind = "seq"
    /\ Len(run.log) < Len(Batch(run))
    /\ \E out \in SolverOutcomes :
          /\ heap' = [heap EXCEPT ![Batch(run)[Len(run.log) + 1]] = solve(@, out)]
          /\ run' = [run EXCEPT
                       !.log = Append(@, heap[Batch(run)[Len(run.log) + 1]].id),
                       !.outs = Append(@, out)]
    /\ UNCHANGED <<scens, scen_vars, scen_df, last, pre, ops>>
    /\ UNCHANGED kept

\* the scenario add_scen stored as o.ref joins the caller's list, or not
Joined(o, joins) ==
    /\ o.result = "ok"
    /\ scens' = o.w.scens
    /\ heap' = o.w.heap
    /\ run' = [run EXCEPT !.live = IF joins THEN Append(@, o.ref) ELSE @,
                          !.added = Append(@, o.w.heap[o.ref].id)]

\* while the batch runs a scenario is derived under a new id and the caller
\* appends it to the list that was passed to optimize, or does not
SeqAddDuring ==
    /\ run.kind = "seq"
    /\ Len(scens) < MaxScens
    /\ \E id \in {None} \cup {Some(i) : i \in UserIds}, joins \in BOOLEAN :
          /\ ~HasScen(scens, ScenId(scens, id))
          /\ Joined(add_scen(World(scens, heap), id, "", Some(heap[run.frozen[1]].id),
                             FALSE, None, FloatV(0, 1)),
                    joins)
    /\ UNCHANGED <<scen_vars, scen_df, last, pre, ops>>
    /\ UNCHANGED kept

\* lines 562-571: the batch is through; the message is printed or not and
\* optimize returns
SeqEnd ==
    /\ run.kind = "seq"
    /\ Len(run.log) >= Len(Batch(run))
    /\ last' = [Call("optimize") EXCEPT
                  !.batch = IdsOf(heap, run.frozen),
                  !.outs = run.outs,
                  !.solved = run.log,
                  !.added = run.added,
                  !.list = IdsOf(heap, run.live),
                  !.msg = AllOptimal(heap, run.frozen)]
    /\ pre' = World(scens, heap)
    /\ run' = [NoRun EXCEPT !.ray = run.ray]
    /\ UNCHANGED <<scens, heap, scen_vars, scen_df, ops>>
    /\ UNCHANGED kept

NextSeq ==
    \/ SeqSetup
    \/ SeqBegin
    \/ SeqSolve
    \/ SeqAddDuring
    \/ SeqEnd

SpecSeq == Init /\ [][NextSeq]_vars

-----------------------------------------------------------------------------
(* CaseStudy.optimize(scens, parallel=True), lines 502-525: one ray task per
   scenario of the list; the tasks run in any order and ray.get gathers what
   they return *)

\* line 513: operation.remote(i) for i in input pickles each scenario of the
\* list for its task, which unpickles a copy of its own
TaskInputs(h, list) == [i \in 1..Len(list) |-> h[list[i]]]

\* the tasks as submitted
Submitted(copies) == [i \in 1..Len(copies) |-> [state |-> "pending", sc |-> copies[i]]]

\* variant, not the program: the solver's answer depends on how many tasks
\* have finished before
TaskOutcome_ByTurn(r, i) == r.outs[Len(r.log) + 1]

\* line 507: what the solver answers for the copy of task i
TaskOutcome(r, i) == r.outs[i]

\* line 510: the task returns sc.params, sc.res, sc.collector_values of its
\* copy; reading sc.res of a copy without results raises in the task
Settled(sc) ==
    [state |-> IF HasRes(sc) /\ sc.collector_values.has THEN "done" ELSE "raised",
     sc |-> sc]

\* lines 506-510: optimize_scenario on the task's copy
optimize_scenario(sc, out) == Settled(solve(sc, out))

\* the value a finished task returns
TaskValue(sc) ==
    [params |-> sc.params, res |-> sc.res, collector_values |-> sc.collector_values]

\* variant, not the program: the results come in the order the tasks finished
Gathered_AsCompleted(r) == [i \in 1..Len(r.tasks) |-> TaskValue(r.tasks[r.log[i]].sc)]

\* line 513: ray.get returns the results in the order of the submitted tasks
Gathered(r) == [i \in 1..Len(r.tasks) |-> TaskValue(r.tasks[i].sc)]

\* variant, not the program: ray.get returns as soon as one task has finished
Ready_Any(tasks) == \E i \in 1..Len(tasks) : tasks[i].state # "pending"

\* line 513: ray.get returns when every task has returned its value
Ready(tasks) == \A i \in 1..Len(tasks) : tasks[i].state = "done"

\* line 513: ray.get raises the error of a task that raised
Failed(tasks) == \E i \in 1..Len(tasks) : tasks[i].state = "raised"

\* lines 520-522: the three attributes of a scenario are reassigned
Reassigned(sc, v) ==
    [sc EXCEPT !.params = v.params, !.res = v.res,
               !.collector_values = v.collector_values]

\* lines 519-522: zip(scens, pickled_results)
RECURSIVE MergeFrom(_, _, _, _)
MergeFrom(h, refs, results, i) ==
    IF i > Len(refs) \/ i > Len(results) THEN h
    ELSE MergeFrom([h EXCEPT ![refs[i]] = Reassigned(@, results[i])],
                   refs, results, i + 1)

\* the scenarios are added, and their parameters set, before the batch starts
ParSetup ==
    /\ run.kind = "idle"
    /\ AddScen

ParPrepare ==
    /\ run.kind = "idle"
    /\ UpdateParams

\* line 515: ray.init() raises when the session of an earlier call is still
\* up, before any task is submitted
ParRefuse ==
    /\ run.kind = "idle"
    /\ run.ray
    /\ ops < MaxOps
    /\ Len(scens) > 0
    /\ \E list \in {[i \in 1..Len(scens) |-> scens[i].ref],
                     [i \in 1..Len(scens) |-> scens[Len(scens) + 1 - i].ref]} :
          last' = [Call("optimize") EXCEPT
                     !.parallel = TRUE,
                     !.result = "RuntimeError",
                     !.batch = IdsOf(heap, list)]
    /\ pre' = World(scens, heap)
    /\ ops' = ops + 1
    /\ UNCHANGED <<scens, heap, scen_vars, scen_df, run>>
    /\ UNCHANGED kept

\* lines 548-552 and 515-518: optimize(parallel=True) is called with a list of
\* stored scenarios, or with None for self.scens_list, starts the ray session
\* and submits the tasks; outs is what the solver will answer for each
\* scenario
ParBegin ==
    /\ run.kind = "idle"
    /\ ~run.ray
    /\ ops < MaxOps
    /\ Len(scens) > 0
    /\ \E list \in {[i \in 1..Len(scens) |-> scens[i].ref],
                     [i \in 1..Len(scens) |-> scens[Len(scens) + 1 - i].ref]},
          outs \in [1..Len(scens) -> SolverOutcomes] :
          run' = [NoRun EXCEPT !.kind = "par", !.live = list, !.frozen = list,
                               !.outs = outs, !.ray = TRUE,
                               !.tasks = Submitted(TaskInputs(heap, list))]
    /\ pre' = World(scens, heap)
    /\ ops' = ops + 1
    /\ UNCHANGED <<scens, heap, scen_vars, scen_df, last>>
    /\ UNCHANGED kept

\* a task that has not run yet runs to its end
ParTask ==
    /\ run.kind = "par"
    /\ \E i \in 1..Len(run.tasks) :
          /\ run.tasks[i].state = "pending"
          /\ run' = [run EXCEPT
                       !.tasks[i] = optimize_scenario(@.sc, TaskOutcome(run, i)),
                       !.log = Append(@, i)]
    /\ UNCHANGED <<scens, heap, scen_vars, scen_df, last, pre, ops>>
    /\ UNCHANGED kept

\* optimize(parallel=True) returned or raised; line 525, ray.shutdown(), is
\* reached when it returns
ParDone(result) ==
    /\ last' = [Call("optimize") EXCEPT
                  !.parallel = TRUE,
                  !.result = result,
                  !.batch = IdsOf(heap, run.frozen),
                  !.outs = run.outs,
                  !.solved = run.log,
                  !.tasks = run.tasks]
    /\ run' = [NoRun EXCEPT !.ray = (result # "ok")]
    /\ UNCHANGED <<scens, scen_vars, scen_df, pre, ops>>
    /\ UNCHANGED kept

\* lines 518-525: ray.get has returned and the results are merged
ParMerge ==
    /\ run.kind = "par"
    /\ Ready(run.tasks)
    /\ heap' = MergeFrom(heap, run.frozen, Gathered(run), 1)
    /\ ParDone("ok")

\* line 518: ray.get raises the error of a task, and so does optimize
ParAbort ==
    /\ run.kind = "par"
    /\ Failed(run.tasks)
    /\ heap' = heap
    /\ ParDone("RayTaskError")

NextPar ==
    \/ ParSetup
    \/ ParPrepare
    \/ ParRefuse
    \/ ParBegin
    \/ ParTask
    \/ ParMerge
    \/ ParAbort

SpecPar == Init /\ [][NextPar]_vars

-----------------------------------------------------------------------------
(* The time window of the case study *)

\* cs.set_time_horizon(start, steps, end) returned or raised as r says
WindowSet(r, call) ==
    /\ cs' = [cs EXCEPT !.dict = r.dict]
    /\ last' = [call EXCEPT !.result = r.result]

SetTimeHorizonWith(args) ==
    /\ run.kind = "idle"
    /\ ops < MaxOps
    /\ \E a \in args :
          WindowSet(set_time_horizon(cs.dict, a.start, a.steps, a.end),
                    [Call("set_time_horizon") EXCEPT
                       !.start = a.start, !.steps = a.steps, !.end = a.end,
                       !.was = Window(cs.dict)])
    /\ ops' = ops + 1
    /\ UNCHANGED <<scens, heap, scen_vars, scen_df, pre, run, files, opened, build>>

SetTimeHorizon == SetTimeHorizonWith(WindowArgs)

NextWindow ==
    \/ SetTimeHorizon

SpecWindow == Init /\ [][NextWindow]_vars

\* cs.set_rolling_horizon(horizon_hours); again says that the call before
\* was the same call
SetRollingHorizon ==
    /\ run.kind = "idle"
    /\ ops < MaxOps
    /\ \E hours \in Hours :
          /\ cs' = [cs EXCEPT !.dict = set_rolling_horizon(cs.dict, hours)]
          /\ last' = [Call("set_rolling_horizon") EXCEPT
                        !.hours = hours,
                        !.again = (last.op = "set_rolling_horizon"
                                      /\ last.hours = hours),
                        !.was = Window(cs.dict)]
    /\ ops' = ops + 1
    /\ UNCHANGED <<scens, heap, scen_vars, scen_df, pre, run, files, opened, build>>

\* the case study is constructed with any of the arguments
InitAny == \E a \in ConstructorArgs : InitWith(a)

NextHorizon ==
    \/ SetTimeHorizon
    \/ SetRollingHorizon

SpecHorizon == InitAny /\ [][NextHorizon]_vars

-----------------------------------------------------------------------------
(* The component resolver: the components of a scenario, given in their
   declaration order, are put into an order in which every component comes
   after its predecessors. deps gives for every component the predecessors
   it requires (req) and those it follows only if they are present (opt). *)

NoDeps == [req |-> {}, opt |-> {}]


\* the position of a name in a list, 0 if it is not in it
RECURSIVE PosIn(_, _, _)
PosIn(names, n, i) ==
    IF i > Len(names) THEN 0
    ELSE IF names[i] = n THEN i
    ELSE PosIn(names, n, i + 1)

\* the required predecessors of active components that are not active
Unresolved(names, deps) ==
    UNION {deps[n].req \ NameSet(names) : n \in NameSet(names)}

\* variant, not the program: no component has predecessors
Preds_None(names, deps, n) == {}

\* the active predecessors of a component: an optional predecessor that is
\* absent is no edge
Preds(names, deps, n) == (deps[n].req \cup deps[n].opt) \cap NameSet(names)

\* the positions of the components not yet emitted whose predecessors are
ReadyAt(names, deps, emitted) ==
    {i \in 1..Len(names) :
        /\ names[i] \notin NameSet(emitted)
        /\ Preds(names, deps, names[i]) \subseteq NameSet(emitted)}

\* ties are broken by the declaration order
FirstReadyAt(names, deps, emitted) ==
    CHOOSE i \in ReadyAt(names, deps, emitted) :
        \A j \in ReadyAt(names, deps, emitted) : i <= j

\* the components not yet emitted, in their declaration order
Remaining(names, emitted) ==
    SelectSeq(names, LAMBDA n : n \notin NameSet(emitted))

\* variant, not the program: components on a cycle are emitted in their
\* declaration order
Stuck_Emitted(names, emitted) ==
    [result |-> "ok", order |-> emitted \o Remaining(names, emitted)]

\* no component is ready although some are left: the graph has a cycle
Stuck(names, emitted) == [result |-> "CyclicDependencyError", order |-> <<>>]

\* the topological sort
RECURSIVE Sorted(_, _, _)
Sorted(names, deps, emitted) ==
    IF Len(emitted) = Len(names) THEN [result |-> "ok", order |-> emitted]
    ELSE IF ReadyAt(names, deps, emitted) = {} THEN Stuck(names, emitted)
    ELSE Sorted(names, deps,
                Append(emitted, names[FirstReadyAt(names, deps, emitted)]))

\* variant, not the program: a required predecessor that is absent is
\* ignored like an optional one
resolve_Lenient(names, deps) == Sorted(names, deps, <<>>)

\* ComponentResolver: the order of the components, or the error
resolve(names, deps) ==
    IF Unresolved(names, deps) # {}
    THEN [result |-> "UnresolvedDependencyError", order |-> <<>>]
    ELSE Sorted(names, deps, <<>>)

\* semdr_order_restrictions, semdr_components.py lines 636-643, in the
\* order of the table; a component follows those of its predecessors that
\* are part of the scenario
semdr_names ==
    <<"SEMDRElectricDemand", "SEMDRHVAC", "SEMDRGrid", "SEMDRBattery",
      "SEMDRPV", "SEMDRMain">>

\* variant, not the program: SEMDRGrid does not follow SEMDRPV
semdr_order_restrictions_NoFeedIn ==
    [n \in NameSet(semdr_names) |->
        CASE n = "SEMDRMain" ->
                [req |-> {},
                 opt |-> {"SEMDRElectricDemand", "SEMDRHVAC", "SEMDRGrid",
                          "SEMDRBattery", "SEMDRPV"}]
          [] OTHER -> NoDeps]

\* lines 636-643: the predecessors of every component
semdr_order_restrictions ==
    [n \in NameSet(semdr_names) |->
        CASE n = "SEMDRGrid" -> [req |-> {}, opt |-> {"SEMDRPV"}]
          [] n = "SEMDRMain" ->
                [req |-> {},
                 opt |-> {"SEMDRElectricDemand", "SEMDRHVAC", "SEMDRGrid",
                          "SEMDRBattery", "SEMDRPV"}]
          [] OTHER -> NoDeps]

\* the scenarios of SEMDR components: every selection of the components, in
\* the order of the table or in the reverse order
RECURSIVE Reversed(_)
Reversed(q) == IF q = <<>> THEN <<>> ELSE Append(Reversed(Tail(q)), Head(q))
SemdrInputs ==
    {[names |-> q, deps |-> semdr_order_restrictions] :
        q \in UNION {{SelectSeq(semdr_names, LAMBDA n : n \in S),
                       Reversed(SelectSeq(semdr_names, LAMBDA n : n \in S))} :
                     S \in (SUBSET NameSet(semdr_names)) \ {{}}}}

\* components A, B and C: every list of one to three of them without
\* repetition, with every choice of required and optional predecessors
Abc == {"A", "B", "C"}
AbcLists ==
    {q \in UNION {[1..k -> Abc] : k \in 1..3} :
        \A i, j \in 1..Len(q) : q[i] = q[j] => i = j}
AbcDeps(q) ==
    {d \in [Abc -> {[req |-> r, opt |-> o] : r \in SUBSET Abc, o \in SUBSET Abc}] :
        \A n \in Abc :
            IF n \in NameSet(q)
            THEN n \notin d[n].req \cup d[n].opt /\ d[n].req \cap d[n].opt = {}
            ELSE d[n] = NoDeps}
AbcInputs ==
    UNION {{[names |-> q, deps |-> d] : d \in AbcDeps(q)} : q \in AbcLists}

\* the components of a scenario are ordered, or the build fails
Resolved(o, call) ==
    last' = [call EXCEPT !.result = o.result, !.order = o.order]

Resolve ==
    /\ last.op = "init"
    /\ \E inp \in AbcInputs \cup SemdrInputs :
          Resolved(resolve(inp.names, inp.deps),
                   [Call("resolve") EXCEPT !.names = inp.names, !.deps = inp.deps])
    /\ UNCHANGED <<scens, heap, scen_vars, scen_df, pre, ops, run, cs, files, opened, build>>

NextResolve ==
    \/ Resolve

SpecResolve == Init /\ [][NextResolve]_vars

-----------------------------------------------------------------------------
(* The build of a scenario from its components: the components are put
   into their order, then every component runs its dimension phase, then
   every component its parameter phase, then every component its model
   phase. The build is followed one phase of one component at a time. *)

\* the component lists a scenario is built from: one to six of the SEMDR
\* components without repetition, in every order
ComponentLists ==
    {q \in UNION {[1..k -> NameSet(semdr_names)] : k \in 1..Len(semdr_names)} :
        \A i, j \in 1..Len(q) : q[i] = q[j] => i = j}

\* variant, not the program: every component runs its model phase right
\* after its own parameter phase
AfterPhase_Interleaved(phase, pos, n) ==
    CASE phase = "dim" ->
            IF pos < n THEN [phase |-> "dim", pos |-> pos]
            ELSE [phase |-> "param", pos |-> 0]
      [] phase = "param" -> [phase |-> "model", pos |-> pos - 1]
      [] phase = "model" ->
            IF pos < n THEN [phase |-> "param", pos |-> pos]
            ELSE [phase |-> "", pos |-> 0]

\* the phase and the number of components that have run it, after the
\* component at pos of n has run its phase: a pass over all components is
\* completed before the next pass begins
AfterPhase(phase, pos, n) ==
    IF pos < n THEN [phase |-> phase, pos |-> pos]
    ELSE CASE phase = "dim" -> [phase |-> "param", pos |-> 0]
           [] phase = "param" -> [phase |-> "model", pos |-> 0]
           [] phase = "model" -> [phase |-> "", pos |-> 0]

\* the build after a component has run a phase, which left the registry reg
Stepped(b, comp, reg, to) ==
    [b EXCEPT !.reg = reg,
              !.trace = Append(@, [phase |-> b.phase, comp |-> comp]),
              !.phase = IF reg.error # "" THEN "" ELSE to.phase,
              !.pos = IF reg.error # "" THEN 0 ELSE to.pos,
              !.kind = IF reg.error # "" THEN "failed"
                       ELSE IF to.phase = "" THEN "done" ELSE "run",
              !.result = IF reg.error # "" THEN reg.error
                         ELSE IF to.phase = "" THEN "ok" ELSE ""]

\* the next component runs the phase the build is in
RunPhase(b, comp) ==
    Stepped(b, comp,
            Ran(b.reg, comp, PhaseOf(b.phase, comp, b.invest, b.bes, b.reg.dims)),
            AfterPhase(b.phase, b.pos + 1, Len(b.order)))

\* the components were put into their order, or could not be
Begun(q, invest, bes, r) ==
    IF r.result = "ok"
    THEN [NoBuild EXCEPT !.kind = "run", !.added = q, !.invest = invest,
                         !.bes = bes,
                         !.order = r.order, !.phase = "dim"]
    ELSE [NoBuild EXCEPT !.kind = "failed", !.added = q, !.invest = invest,
                         !.bes = bes,
                         !.result = r.result]

\* the batteries of a component list: the existing capacity E_CAPx is 0, as
\* the class makes it, or 100; the solver library builds nonlinear
\* expressions or not, which matters with investments only
Batteries(q, invest) ==
    IF "SEMDRBattery" \notin NameSet(q)
    THEN {[E_CAPx |-> 0, nonlinear |-> FALSE]}
    ELSE {[E_CAPx |-> e, nonlinear |-> n] :
            e \in {0, 100}, n \in IF invest THEN BOOLEAN ELSE {FALSE}}

\* a scenario of the case study is built from a list of components
BuildBegin ==
    /\ build.kind = "idle"
    /\ \E q \in ComponentLists :
          \E bes \in Batteries(q, cs.dict.consider_invest) :
              build' = Begun(q, cs.dict.consider_invest, bes,
                             resolve(q, semdr_order_restrictions))
    /\ UNCHANGED <<scens, heap, scen_vars, scen_df, last, pre, ops, run, cs,
                   files, opened>>

\* the next component runs its dimension phase
BuildDims ==
    /\ build.kind = "run"
    /\ build.phase = "dim"
    /\ build' = RunPhase(build, build.order[build.pos + 1])
    /\ UNCHANGED <<scens, heap, scen_vars, scen_df, last, pre, ops, run, cs,
                   files, opened>>

\* the next component runs its parameter phase
BuildParams ==
    /\ build.kind = "run"
    /\ build.phase = "param"
    /\ build' = RunPhase(build, build.order[build.pos + 1])
    /\ UNCHANGED <<scens, heap, scen_vars, scen_df, last, pre, ops, run, cs,
                   files, opened>>

\* the next component runs its model phase
BuildModel ==
    /\ build.kind = "run"
    /\ build.phase = "model"
    /\ build' = RunPhase(build, build.order[build.pos + 1])
    /\ UNCHANGED <<scens, heap, scen_vars, scen_df, last, pre, ops, run, cs,
                   files, opened>>

NextBuild ==
    \/ BuildBegin
    \/ BuildDims
    \/ BuildParams
    \/ BuildModel

SpecBuild == InitAny /\ [][NextBuild]_vars

-----------------------------------------------------------------------------
(* The IoT schema of the system: every component describes its devices in
   a dict, and SEMDRMain collects the dicts and the topic patterns. A dict
   is the sequence of its entries in insertion order. *)

Str(s) == [k |-> "str", s |-> s, items |-> <<>>]
NoneV == [k |-> "none", s |-> "None", items |-> <<>>]
List(q) == [k |-> "list", s |-> "", items |-> q]
Dict(q) == [k |-> "dict", s |-> "", items |-> q]
Entry(key, value) == [key |-> key, value |-> value]

\* key in d, and d[key]
HasKey(d, key) == \E i \in 1..Len(d) : d[i].key = key
AtKey(d, key) == d[CHOOSE i \in 1..Len(d) : d[i].key = key].value

\* d[key] = value
Put(d, key, value) ==
    IF HasKey(d, key)
    THEN [i \in 1..Len(d) |-> IF d[i].key = key THEN Entry(key, value) ELSE d[i]]
    ELSE Append(d, Entry(key, value))

\* f"devices/{id}/{kind}/measurement", None formatted as the text None
Topic(id, kind) ==
    "devices/" \o (IF id.some THEN id.v ELSE "None") \o "/" \o kind \o "/measurement"

\* a device id as a value of a dict
IdV(id) == IF id.some THEN Str(id.v) ELSE NoneV

\* the truth value of an optional text: None and the empty text are false
Truthy(id) == id.some /\ id.v # ""

\* a list of field names, and the units of the fields
Fields(names) == List([i \in 1..Len(names) |-> Str(names[i])])
Units(names) == Dict([i \in 1..Len(names) |-> Entry(names[i], Str("unit"))])

\* lines 292-296: a threshold and its unit per alert
Alerts(names) ==
    Dict([i \in 1..Len(names) |->
            Entry(names[i], Dict(<<Entry("threshold", Str("threshold")),
                                   Entry("unit", Str("unit"))>>))])

\* the devices of a component: none is configured
Component(class) ==
    [class |-> class, iot_device_id |-> None, temp_sensor_ids |-> None,
     occupancy_sensor_ids |-> None, battery_monitor_id |-> None,
     weather_station_id |-> None, inverter_monitor_id |-> None,
     smart_meter_id |-> None, grid_monitor_id |-> None]

\* lines 68-77
SEMDRElectricDemand_schema(c) ==
    <<Entry("device_id", IdV(c.iot_device_id)),
      Entry("measurement_type", Str("electrical_demand")),
      Entry("expected_fields", Fields(<<"power", "voltage", "current", "timestamp">>)),
      Entry("topic_pattern", Str(Topic(c.iot_device_id, "electrical"))),
      Entry("data_frequency", Str("1min")),
      Entry("units", Units(<<"power", "voltage", "current">>))>>

\* lines 176-194: one dict per sensor of a list that is neither None nor empty
Sensors(ids, kind, fields) ==
    List([i \in 1..Len(ids) |->
            Dict(<<Entry("device_id", Str(ids[i])),
                   Entry("topic_pattern", Str(Topic(Some(ids[i]), kind)))>>
                 \o fields
                 \o <<Entry("location", Str("zone_" \o ToString(i)))>>)])

\* lines 167-196
SEMDRHVAC_schema(c) ==
    <<Entry("measurement_type", Str("hvac_environmental")),
      Entry("expected_fields",
            Fields(<<"temperature", "humidity", "pressure", "timestamp">>)),
      Entry("data_frequency", Str("1min")),
      Entry("units", Units(<<"temperature", "humidity", "pressure">>))>>
    \o (IF c.temp_sensor_ids.some /\ c.temp_sensor_ids.v # <<>>
        THEN <<Entry("temperature_sensors",
                     Sensors(c.temp_sensor_ids.v, "environmental", <<>>))>>
        ELSE <<>>)
    \o (IF c.occupancy_sensor_ids.some /\ c.occupancy_sensor_ids.v # <<>>
        THEN <<Entry("occupancy_sensors",
                     Sensors(c.occupancy_sensor_ids.v, "occupancy",
                             <<Entry("expected_fields",
                                     Fields(<<"is_occupied", "occupancy_count",
                                              "timestamp">>))>>))>>
        ELSE <<>>)

\* lines 274-298
SEMDRBattery_schema(c) ==
    IF ~Truthy(c.battery_monitor_id) THEN <<>>
    ELSE <<Entry("device_id", Str(c.battery_monitor_id.v)),
           Entry("measurement_type", Str("battery_monitoring")),
           Entry("topic_pattern", Str(Topic(c.battery_monitor_id, "battery"))),
           Entry("expected_fields",
                 Fields(<<"voltage", "current", "power", "soc", "temperature",
                          "timestamp">>)),
           Entry("data_frequency", Str("1min")),
           Entry("units", Units(<<"voltage", "current", "power", "soc",
                                  "temperature">>)),
           Entry("alerts", Alerts(<<"low_soc", "high_temp", "over_current">>))>>

\* the dict of one device under its own key, or nothing without the device
Device(key, id, kind, fields, units) ==
    IF ~Truthy(id) THEN <<>>
    ELSE <<Entry(key, Dict(<<Entry("device_id", Str(id.v)),
                             Entry("topic_pattern", Str(Topic(id, kind))),
                             Entry("expected_fields", Fields(fields)),
                             Entry("units", Units(units))>>))>>

\* lines 363-396
SEMDRPV_schema(c) ==
    <<Entry("measurement_type", Str("pv_system")),
      Entry("data_frequency", Str("1min"))>>
    \o Device("weather_station", c.weather_station_id, "weather",
              <<"solar_irradiance", "temperature", "humidity", "wind_speed",
                "timestamp">>,
              <<"solar_irradiance", "temperature", "humidity", "wind_speed">>)
    \o Device("inverter_monitor", c.inverter_monitor_id, "inverter",
              <<"ac_power", "dc_power", "efficiency", "temperature", "timestamp">>,
              <<"ac_power", "dc_power", "efficiency", "temperature">>)

\* lines 473-507
SEMDRGrid_schema(c) ==
    <<Entry("measurement_type", Str("grid_connection")),
      Entry("data_frequency", Str("1min"))>>
    \o Device("smart_meter", c.smart_meter_id, "meter",
              <<"active_power", "reactive_power", "voltage", "current",
                "frequency", "timestamp">>,
              <<"active_power", "reactive_power", "voltage", "current",
                "frequency">>)
    \o Device("grid_monitor", c.grid_monitor_id, "grid",
              <<"voltage_thd", "current_thd", "power_factor", "timestamp">>,
              <<"voltage_thd", "current_thd", "power_factor">>)

\* line 615: SEMDRMain has no get_iot_data_schema
HasSchemaMethod(c) == c.class # "SEMDRMain"

\* component.get_iot_data_schema()
get_iot_data_schema(c) ==
    CASE c.class = "SEMDRElectricDemand" -> SEMDRElectricDemand_schema(c)
      [] c.class = "SEMDRHVAC" -> SEMDRHVAC_schema(c)
      [] c.class = "SEMDRBattery" -> SEMDRBattery_schema(c)
      [] c.class = "SEMDRPV" -> SEMDRPV_schema(c)
      [] c.class = "SEMDRGrid" -> SEMDRGrid_schema(c)

\* lines 622-623: the topic pattern at the top of a schema
TopTopics(schema) ==
    IF HasKey(schema, "topic_pattern")
    THEN <<AtKey(schema, "topic_pattern").s>> ELSE <<>>

\* lines 628-630: the topic patterns of the dicts of a list
RECURSIVE ItemTopics(_)
ItemTopics(items) ==
    IF items = <<>> THEN <<>>
    ELSE (IF Head(items).k = "dict" /\ HasKey(Head(items).items, "topic_pattern")
          THEN <<AtKey(Head(items).items, "topic_pattern").s>> ELSE <<>>)
         \o ItemTopics(Tail(items))

\* lines 626-630: the values of the schema in their order; only those that
\* are lists are looked into
RECURSIVE NestedTopics(_)
NestedTopics(schema) ==
    IF schema = <<>> THEN <<>>
    ELSE (IF Head(schema).value.k = "list"
          THEN ItemTopics(Head(schema).value.items) ELSE <<>>)
         \o NestedTopics(Tail(schema))

\* lines 617-630: a schema that is not empty is entered under the class name
\* of its component and its topic patterns are appended
Collected(sys, class, schema) ==
    IF schema = <<>> THEN sys
    ELSE [iot_core_topics |->
              sys.iot_core_topics \o TopTopics(schema) \o NestedTopics(schema),
          device_schemas |-> Put(sys.device_schemas, class, Dict(schema))]

\* lines 589-632
RECURSIVE CollectAll(_, _)
CollectAll(sys, components) ==
    IF components = <<>> THEN sys
    ELSE CollectAll(IF HasSchemaMethod(Head(components))
                    THEN Collected(sys, Head(components).class,
                                   get_iot_data_schema(Head(components)))
                    ELSE sys,
                    Tail(components))

get_system_iot_schema(components) ==
    CollectAll([iot_core_topics |-> <<>>, device_schemas |-> <<>>], components)

\* the ways a component is configured with devices
SensorLists == {None, Some(<<>>), Some(<<"temp_001">>), Some(<<"temp_001", "temp_002">>)}
Configured(class) ==
    CASE class = "SEMDRElectricDemand" ->
            {[Component(class) EXCEPT !.iot_device_id = id] :
                id \in {None, Some(""), Some("meter_001")}}
      [] class = "SEMDRHVAC" ->
            {[Component(class) EXCEPT !.temp_sensor_ids = t,
                                      !.occupancy_sensor_ids = o] :
                t \in SensorLists, o \in {None, Some(<<"occ_001">>)}}
      [] class = "SEMDRBattery" ->
            {[Component(class) EXCEPT !.battery_monitor_id = id] :
                id \in {None, Some(""), Some("battery_001")}}
      [] class = "SEMDRPV" ->
            {[Component(class) EXCEPT !.weather_station_id = w,
                                      !.inverter_monitor_id = v] :
                w \in {None, Some(""), Some("weather_001")},
                v \in {None, Some(""), Some("inverter_001")}}
      [] class = "SEMDRGrid" ->
            {[Component(class) EXCEPT !.smart_meter_id = m,
                                      !.grid_monitor_id = g] :
                m \in {None, Some(""), Some("smart_001")},
                g \in {None, Some(""), Some("grid_001")}}
      [] class = "SEMDRMain" -> {Component(class)}

\* the component lists of a system: a selection of the classes in the order
\* of the table, every component configured in one of its ways
RECURSIVE Systems(_)
Systems(names) ==
    IF names = <<>> THEN {<<>>}
    ELSE UNION {{q} \cup {<<c>> \o q : c \in Configured(Head(names))} :
                q \in Systems(Tail(names))}

\* main.get_system_iot_schema(components)
SystemSchema ==
    /\ last.op = "init"
    /\ \E q \in Systems(semdr_names) :
          last' = [Call("get_system_iot_schema") EXCEPT
                      !.comps = q, !.schema = get_system_iot_schema(q)]
    /\ UNCHANGED <<scens, heap, scen_vars, scen_df, pre, ops, run, cs, files,
                   opened, build>>

NextSchema ==
    \/ SystemSchema

SpecSchema == Init /\ [][NextSchema]_vars

-----------------------------------------------------------------------------
(* Fetching the data of an IoT device: the manager queries the time-series
   database and falls back on synthetic data. A device id is its text
   together with the markers of the synthetic generator the text contains. *)

DeviceId(text, has) == [text |-> text, has |-> has]
DeviceIds ==
    {DeviceId("smart_meter_001", {"smart_meter"}),
     DeviceId("electrical_main", {"electrical"}),
     DeviceId("hotel_main_meter_001", {}),
     DeviceId("hvac_zone1_temp_001", {"hvac", "temp"}),
     DeviceId("temp_001", {"temp"}),
     DeviceId("battery_bms_001", {"battery"}),
     DeviceId("battery_temp_001", {"battery", "temp"}),
     DeviceId("weather_station_001", {"weather"}),
     DeviceId("pv_inverter_001", {"pv"}),
     DeviceId("room_occ_001", {})}

\* marker in device_id
Contains(device_id, marker) == marker \in device_id.has

\* a data table with the given columns, and a call that raised
Frame(columns, source) ==
    [kind |-> "frame", columns |-> columns, source |-> source, error |-> ""]
Raised(error) ==
    [kind |-> "raise", columns |-> <<>>, source |-> "", error |-> error]

\* lines 130-179: the branches of the generator: the columns they fill,
\* whether they assign the local variable hours and whether they read it
SyntheticBranch(device_id) ==
    IF Contains(device_id, "smart_meter") \/ Contains(device_id, "electrical")
    THEN [columns |-> <<"power", "voltage", "current">>,
          assigns |-> TRUE, reads |-> TRUE]
    ELSE IF Contains(device_id, "temp") \/ Contains(device_id, "hvac")
    THEN [columns |-> <<"temperature", "humidity", "pressure">>,
          assigns |-> FALSE, reads |-> TRUE]
    ELSE IF Contains(device_id, "battery")
    THEN [columns |-> <<"voltage", "soc", "current", "power", "temperature">>,
          assigns |-> FALSE, reads |-> TRUE]
    ELSE IF Contains(device_id, "weather") \/ Contains(device_id, "pv")
    THEN [columns |-> <<"solar_irradiance", "temperature", "humidity",
                        "wind_speed", "efficiency">>,
          assigns |-> TRUE, reads |-> TRUE]
    ELSE [columns |-> <<>>, assigns |-> FALSE, reads |-> FALSE]

\* lines 182-183: the columns are filtered to the requested fields, if any
Filtered(columns, measurement_fields) ==
    IF measurement_fields.some /\ measurement_fields.v # <<>>
    THEN SelectSeq(columns, LAMBDA k : k \in NameSet(measurement_fields.v))
    ELSE columns

\* lines 117-187 in the branch br: reading hours without an assignment
\* raises
Generate(br, measurement_fields) ==
    IF br.reads /\ ~br.assigns THEN Raised("UnboundLocalError")
    ELSE Frame(Filtered(br.columns, measurement_fields), "synthetic")

_generate_synthetic_data(device_id, measurement_fields) ==
    Generate(SyntheticBranch(device_id), measurement_fields)

\* the answers of the database: the query raises, or returns no rows, or
\* returns rows of the given measure names
QueryAnswers ==
    {[kind |-> "raise", measures |-> <<>>],
     [kind |-> "rows", measures |-> <<>>],
     [kind |-> "rows", measures |-> <<"power">>],
     [kind |-> "rows", measures |-> <<"humidity", "temperature">>]}

\* lines 57-115
fetch_device_data(connected, device_id, measurement_fields, answer) ==
    IF ~connected
    THEN _generate_synthetic_data(device_id, measurement_fields)
    ELSE IF answer.kind = "raise"
    THEN _generate_synthetic_data(device_id, measurement_fields)
    ELSE Frame(answer.measures, "timestream")

\* the measurement_fields of a call
FieldLists ==
    {None, Some(<<>>), Some(<<"power", "voltage", "current">>),
     Some(<<"temperature", "humidity">>),
     Some(<<"voltage", "current", "soc", "temperature">>)}

\* iot_manager.fetch_device_data(device_id, start, end, measurement_fields)
\* of a manager that is connected or not
FetchDeviceData ==
    /\ last.op = "init"
    /\ \E connected \in BOOLEAN, device_id \in DeviceIds,
          measurement_fields \in FieldLists, answer \in QueryAnswers :
          \* line 64: a manager without connection sends no query
          /\ connected \/ answer.kind = "raise"
          /\ last' = [Call("fetch_device_data") EXCEPT
                        !.fetch = [connected |-> connected,
                                   device_id |-> device_id,
                                   measurement_fields |-> measurement_fields,
                                   answer |-> answer,
                                   out |-> fetch_device_data(connected, device_id,
                                               measurement_fields, answer)]]
    /\ UNCHANGED <<scens, heap, scen_vars, scen_df, pre, ops, run, cs, files,
                   opened, build>>

NextFetch ==
    \/ FetchDeviceData

SpecFetch == Init /\ [][NextFetch]_vars

-----------------------------------------------------------------------------
(* Constructing the case study *)

\* no case study is constructed yet
InitNone ==
    /\ cs = NoCaseStudy
    /\ files = <<>>
    /\ opened = <<>>
    /\ ops = 0
    /\ scens = <<>>
    /\ heap = <<>>
    /\ scen_vars = None
    /\ scen_df = <<>>
    /\ last = Call("init")
    /\ pre = World(<<>>, <<>>)
    /\ run = NoRun
    /\ build = NoBuild

\* CaseStudy(freq=..., year=...) returned the object or raised
Constructed(o, call) ==
    /\ cs' = o.cs
    /\ last' = [call EXCEPT !.result = o.result, !.attrs = o.attrs]

\* cs = CaseStudy(freq=..., year=...), until it succeeds
Construct ==
    /\ cs = NoCaseStudy
    /\ \E a \in NewArgs :
          Constructed(construct("cs", a),
                      [Call("CaseStudy") EXCEPT !.freq = a.freq, !.year = a.year])
    /\ UNCHANGED <<scens, heap, scen_vars, scen_df, pre, ops, run, files, opened, build>>

\* the constructed case study is used
NewRoll ==
    /\ cs # NoCaseStudy
    /\ SetRollingHorizon

NextNew ==
    \/ Construct
    \/ NewRoll

SpecNew == InitNone /\ [][NextNew]_vars

-----------------------------------------------------------------------------
(* CaseStudy.save and open_casestudy: pickling the case study *)

\* Collectors.delete_all(): the registry holds no collector
NoCollectors == [c \in {} |-> {}]

\* variant, not the program: the component list stays on the scenario
DropComponents_Keep(sc) == sc

\* lines 388-389: delattr(sc, "components") when the scenario has them
DropComponents(sc) ==
    IF sc.components.has THEN [sc EXCEPT !.components = NoComponents] ELSE sc

\* lines 391-392: sc.collectors.delete_all()
DropCollectors(sc) == [sc EXCEPT !.collectors = NoCollectors]

\* lines 387-391: every scenario of the store is stripped, before the try
Stripped(h) == [r \in 1..Len(h) |-> DropCollectors(DropComponents(h[r]))]

\* __getstate__, lines 102-105: the state is a copy of __dict__ without plot
getstate(o) == [o.dict EXCEPT !.plot = NoPlot]

\* lines 103-104: pop acts on the copy, the object keeps its attributes
Pickled(o) == o

\* variant, not the program: no plotter is built on load
setstate_AsSaved(self, state) == [self |-> self, dict |-> state]

\* __setstate__, lines 107-109: the state becomes the __dict__ of the new
\* object and a plotter bound to it is built
setstate(self, state) ==
    [self |-> self, dict |-> [state EXCEPT !.plot = CsPlotter(self)]]

\* pickle.dump(self, f), line 395: the state of the case study with its
\* scenarios as they are. of and ids are history, not content: the object
\* and the ids of its scenarios when it was pickled.
pickle_dump(o, s, h) ==
    [dict |-> getstate(o), scens |-> s, heap |-> h,
     of |-> o, ids |-> [i \in 1..Len(s) |-> s[i].id]]

\* pickle.load(f), lines 32-36: a new object is built from the object d the
\* file holds. file and src are history: the file it was loaded from and what
\* the file held then.
pickle_load(self, d, k) ==
    [cs |-> setstate(self, d.dict), scens |-> d.scens, heap |-> d.heap,
     file |-> k, src |-> d]

\* lines 379-381: the path is <date>_<HHMMSS>_<name>.p, or fp when it is
\* given: one path for each second of the clock, or for each fp
FilePaths == 1..MaxFiles

\* the place in the directory of the file at path fp, 0 when there is none
PlaceOf(fs, fp) ==
    IF \E k \in 1..Len(fs) : fs[k].fp = fp
    THEN CHOOSE k \in 1..Len(fs) : fs[k].fp = fp
    ELSE 0

\* a file at path fp with the objects it holds; an empty file holds none
File(fp, objects) == [fp |-> fp, bytes |-> objects]

\* line 394: open(fp, "wb") creates the file, or empties the one at the path
Truncated(fs, fp) ==
    IF PlaceOf(fs, fp) = 0
    THEN Append(fs, File(fp, <<>>))
    ELSE [fs EXCEPT ![PlaceOf(fs, fp)] = File(fp, <<>>)]

\* lines 394-395: the file is opened for writing and, when the dump
\* succeeds, holds the pickled object
Written(fs, fp, out, d) ==
    IF out = "ok"
    THEN [k \in 1..Len(Truncated(fs, fp)) |->
            IF Truncated(fs, fp)[k].fp = fp THEN File(fp, <<d>>)
            ELSE Truncated(fs, fp)[k]]
    ELSE Truncated(fs, fp)

\* a file that holds a pickled object, and the object
HasObject(f) == f.bytes # <<>>
Dumped(f) == f.bytes[1]

\* what pickle.dump does: it succeeds, raises PicklingError, or raises
\* another error
DumpOutcomes == {"ok", "PicklingError", "TypeError"}

\* lines 393-400: PicklingError is logged and save returns None; nothing
\* else is caught
SaveResult(out) ==
    CASE out = "ok" -> "ok"
      [] out = "PicklingError" -> "reported"
      [] OTHER -> out

\* the scenarios are added and solved, and the window is set, before a
\* file is written
SaveSetup ==
    /\ run.kind = "idle"
    /\ files = <<>>
    /\ AddScen

SaveSolve ==
    /\ run.kind = "idle"
    /\ files = <<>>
    /\ Optimize

SaveWindowArgs ==
    {[start |-> 1, steps |-> Some(2), end |-> Absent],
     [start |-> 2, steps |-> Absent, end |-> Some(DtSize)]}

SaveWindow ==
    /\ files = <<>>
    /\ SetTimeHorizonWith(SaveWindowArgs)

\* CaseStudy.save(), lines 368-403; file is the place of the file the call
\* opened for writing
Save ==
    /\ run.kind = "idle"
    /\ \E fp \in FilePaths, out \in DumpOutcomes :
          /\ files' = Written(files, fp, out,
                              pickle_dump(cs, scens, Stripped(heap)))
          /\ last' = [Call("save") EXCEPT
                        !.dump = out,
                        !.result = SaveResult(out),
                        !.fp = fp,
                        !.file = IF PlaceOf(files, fp) = 0
                                 THEN Len(files) + 1
                                 ELSE PlaceOf(files, fp)]
    /\ heap' = Stripped(heap)
    /\ cs' = Pickled(cs)
    /\ pre' = World(scens, heap)
    /\ UNCHANGED <<scens, scen_vars, scen_df, ops, run, opened, build>>

\* open_casestudy(fp), lines 39-44, on a file save has opened for writing:
\* pickle.load raises EOFError on an empty file
Open ==
    /\ run.kind = "idle"
    /\ Len(opened) < MaxOpened
    /\ \E k \in 1..Len(files) :
          IF HasObject(files[k])
          THEN /\ opened' = Append(opened,
                                   pickle_load("opened", Dumped(files[k]), k))
               /\ last' = [Call("open_casestudy") EXCEPT
                             !.file = k, !.fp = files[k].fp]
          ELSE /\ opened' = opened
               /\ last' = [Call("open_casestudy") EXCEPT
                             !.file = k, !.fp = files[k].fp,
                             !.result = "EOFError"]
    /\ UNCHANGED <<scens, heap, scen_vars, scen_df, pre, ops, run, cs, files, build>>

NextSave ==
    \/ SaveSetup
    \/ SaveSolve
    \/ SaveWindow
    \/ Save
    \/ Open

SpecSave == InitAny /\ [][NextSave]_vars

-----------------------------------------------------------------------------
(* Properties *)

\* the scenario stored under an id now, and when the last call started
Now(id) == heap[RefOf(scens, id)]
Before(id) == pre.heap[RefOf(pre.scens, id)]

\* the last call was add_scen deriving a new id from a stored base
Derived ==
    /\ last.op = "add_scen"
    /\ last.result = "ok"
    /\ last.base.some
    /\ last.sid # last.base.v

\* what a derivation may not touch of its base
SameInternals(a, b) ==
    /\ a.params = b.params
    /\ a.meta = b.meta
    /\ a.vars = b.vars
    /\ a.res = b.res
    /\ a.collectors = b.collectors

\* C1: a scenario derived by add_scen from a base that carries res has no
\* contribution in any collector and no res, and the base keeps its res.
C1_DerivedFromSolvedIsClean ==
    (Derived /\ HasRes(Before(last.base.v))) =>
        /\ \A c \in DOMAIN Now(last.sid).collectors :
               Now(last.sid).collectors[c] = {}
        /\ ~HasRes(Now(last.sid))
        /\ HasRes(Now(last.base.v))
        /\ Now(last.base.v).res = Before(last.base.v).res

\* C1 witness: a derivation from a solved base that held contributions
C1_Witness ==
    /\ Derived
    /\ HasRes(Before(last.base.v))
    /\ \E c \in DOMAIN Before(last.base.v).collectors :
           Before(last.base.v).collectors[c] # {}
    /\ ~HasRes(Now(last.sid))

\* C2 (as claimed): add_scen leaves the params, variables, res and collector
\* contributions of the base exactly as they were, for a solved base as well
\* as for an unsolved one.
C2_BaseUntouched ==
    Derived => SameInternals(Now(last.base.v), Before(last.base.v))

\* C3: a change of a parameter, of a variable bound or of a collector made
\* on one stored scenario changes no other stored scenario, in particular
\* neither the base it was derived from nor a scenario derived from it.
C3_NoSharedStructure ==
    (last.op \in {"update_params", "contribute"}) =>
        \A i \in 1..Len(scens) :
            scens[i].id # last.id.v => Now(scens[i].id) = Before(scens[i].id)

\* C3 witness: a scenario derived from a stored base was changed, and so was
\* a base from which a stored scenario had been derived
C3_Witness ==
    /\ last.op \in {"update_params", "contribute"}
    /\ last.result = "ok"
    /\ Now(last.id.v) # Before(last.id.v)
    /\ \E i \in 1..Len(scens) :
          /\ scens[i].id # last.id.v
          /\ \/ Now(last.id.v).derived_from = Some(scens[i].id)
             \/ Now(scens[i].id).derived_from = last.id

\* C4 (as claimed): add_scen with an id that is already stored fails and
\* leaves the store and the scenario stored under that id as they were.
C4_DuplicateIdRefused ==
    (last.op = "add_scen" /\ HasScen(pre.scens, last.sid)) =>
        /\ last.result # "ok"
        /\ scens_ids(scens) = scens_ids(pre.scens)
        /\ Now(last.sid) = Before(last.sid)

\* the last call was add_scen naming a base that is not stored
UnknownBase ==
    /\ last.op = "add_scen"
    /\ last.base.some
    /\ ~HasScen(pre.scens, last.base.v)

\* C5: add_scen with a base that names no stored scenario fails, adds no
\* scenario and changes none, and add_scen can be called again with success.
C5_UnknownBaseFails ==
    UnknownBase =>
        /\ last.result # "ok"
        /\ scens = pre.scens
        /\ heap = pre.heap
        /\ (ops < MaxOps /\ Len(scens) < MaxScens) =>
               ENABLED (AddScen /\ last'.result = "ok" /\ Len(scens') = Len(scens) + 1)

\* C5 witness: the default base REF was named while other scenarios, but no
\* REF, were stored
C5_Witness ==
    /\ UnknownBase
    /\ last.based_on = Some("REF")
    /\ Len(scens) > 0
    /\ last.result = "AttributeError"

\* C6: add_scen with components and a base fails before any change: the
\* store and every scenario are as they were.
C6_ComponentsWithBaseFails ==
    (last.op = "add_scen" /\ last.components
         /\ (last.based_on.some \/ last.based_on_last)) =>
        /\ last.result # "ok"
        /\ scens = pre.scens
        /\ heap = pre.heap

\* C6 witness: the base named is stored, solved, and holds contributions
C6_Witness ==
    /\ last.op = "add_scen"
    /\ last.components
    /\ last.base.some
    /\ HasScen(pre.scens, last.base.v)
    /\ HasRes(Before(last.base.v))
    /\ \E c \in DOMAIN Before(last.base.v).collectors :
           Before(last.base.v).collectors[c] # {}
    /\ last.result = "RuntimeError"

\* the last call was add_scens and it returned
SweepDone == last.op = "add_scens" /\ last.result = "ok"

\* the k-th scenario add_scens generated is still the one stored under its id
Survives(k) ==
    /\ HasScen(scens, last.gen[k])
    /\ \A j \in (k + 1)..Len(last.gen) : last.gen[j] # last.gen[k]
    /\ ~(last.remove_base /\ last.gen[k] = last.based_on.v)

\* the sweep table has one column per combination, every combination once
TableComplete ==
    /\ Len(scen_df) = Combinations(scen_vars)
    /\ \A i, j \in 1..Len(scen_df) : i # j => scen_df[i].row # scen_df[j].row
    /\ \A k \in 1..Len(scen_df) : \A i \in 1..Len(scen_vars.v) :
           \E x \in 1..Len(scen_vars.v[i].values) :
               PyEq(scen_df[k].row[i], scen_vars.v[i].values[x])

\* C7 (as claimed): add_scens derives as many new scenarios as the sweep has
\* combinations, under ids that differ from each other and from every id
\* stored before, and the sweep table holds every combination exactly once.
C7_SweepAddsProduct ==
    SweepDone =>
        /\ Len(last.gen) = Combinations(scen_vars)
        /\ \A i, j \in 1..Len(last.gen) : i # j => last.gen[i] # last.gen[j]
        /\ \A i \in 1..Len(last.gen) : ~HasScen(pre.scens, last.gen[i])
        /\ Cardinality(IdSet(scens) \ IdSet(pre.scens)) = Combinations(scen_vars)
        /\ TableComplete

\* the value a combination gives an entity: a string names an entity of the
\* scenario and stands for its value
Meant(sc, raw) == IF raw.k = "str" THEN sc.params[raw.s] ELSE raw

SweptNames == {scen_vars.v[i].long : i \in 1..Len(scen_vars.v)}

\* C8 (as claimed): in every scenario add_scens generated, a swept variable
\* has both bounds equal to the value of the combination, a swept parameter
\* equals the value, and every parameter and variable bound that is not swept
\* equals the base's.
C8_SweepValuesApplied ==
    SweepDone =>
        \A k \in 1..Len(last.gen) : Survives(k) =>
            LET sc == Now(last.gen[k])
                base == Before(last.based_on.v)
                row == scen_df[k].row
            IN  /\ \A i \in 1..Len(scen_vars.v) :
                       LET ent == scen_vars.v[i].long
                       IN  IF ent \in DOMAIN base.meta
                           THEN /\ PyEq(sc.meta[ent].lb, row[i])
                                /\ PyEq(sc.meta[ent].ub, row[i])
                           ELSE PyEq(sc.params[ent], row[i])
                /\ \A q \in DOMAIN base.params \ SweptNames :
                       PyEq(sc.params[q], base.params[q])
                /\ \A x \in DOMAIN base.meta \ SweptNames :
                       sc.meta[x] = base.meta[x]

\* C8 (amended): as claimed, except that a string value stands for the value
\* of the entity it names, and that t__params_ is reset to 0 and not taken
\* from the base.
C8_SweepValuesAppliedButTiming ==
    SweepDone =>
        \A k \in 1..Len(last.gen) : Survives(k) =>
            LET sc == Now(last.gen[k])
                base == Before(last.based_on.v)
                row == scen_df[k].row
            IN  /\ \A i \in 1..Len(scen_vars.v) :
                       LET ent == scen_vars.v[i].long
                       IN  IF ent \in DOMAIN base.meta
                           THEN /\ PyEq(sc.meta[ent].lb, Meant(sc, row[i]))
                                /\ PyEq(sc.meta[ent].ub, Meant(sc, row[i]))
                           ELSE PyEq(sc.params[ent], Meant(sc, row[i]))
                /\ \A q \in DOMAIN base.params \ (SweptNames \cup {"t__params_"}) :
                       PyEq(sc.params[q], base.params[q])
                /\ PyEq(sc.params["t__params_"], IntV(0))
                /\ DOMAIN sc.params = DOMAIN base.params
                /\ \A x \in DOMAIN base.meta \ SweptNames :
                       sc.meta[x] = base.meta[x]
                /\ DOMAIN sc.meta = DOMAIN base.meta

\* C8 witness: a sweep over a variable and a parameter given by name, from a
\* solved base, has generated its scenarios
C8_Witness ==
    /\ SweepDone
    /\ last.scen_vars = Some(<<ShedSweep, NamedSweep>>)
    /\ HasRes(Before(last.based_on.v))
    /\ \E k \in 1..Len(last.gen) :
          /\ Survives(k)
          /\ Now(last.gen[k]).meta["P_eDem_shed_T"].ub = IntV(5)
          /\ Now(last.gen[k]).params["c_eDem_penalty_"] = IntV(1)

\* the number of combinations of the scen_vars passed in
ArgCombinations ==
    IF last.scen_vars.some /\ last.scen_vars.v # <<>>
    THEN Combinations(last.scen_vars) ELSE 0

\* the last call was add_scens with nParetoPoints > 0 and it returned
ParetoSweepDone == SweepDone /\ last.nParetoPoints > 0

Alpha(id) == Now(id).params["k_PTO_alpha_"]

\* C9 (as claimed): with nParetoPoints = n > 0 add_scens creates the
\* scenarios of the product of scen_vars, which keep the base's weighting,
\* and n more whose k_PTO_alpha_ takes the n values of linspace(0, 1, n).
C9_ParetoPointsAppended ==
    ParetoSweepDone =>
        /\ Len(last.gen) = ArgCombinations + last.nParetoPoints
        /\ \A k \in 1..Len(last.gen) : Survives(k) =>
               IF k <= ArgCombinations
               THEN PyEq(Alpha(last.gen[k]),
                         Before(last.based_on.v).params["k_PTO_alpha_"])
               ELSE PyEq(Alpha(last.gen[k]),
                         Linspace(last.nParetoPoints)[k - ArgCombinations])

\* the evenly spaced values of [0, 1]: 0 alone for n = 1, else j/(n-1)
EvenlySpaced(n, j) == IF n = 1 THEN FloatV(0, 1) ELSE FloatV(j - 1, n - 1)

\* C9 (amended): with nParetoPoints = n > 0 k_PTO_alpha_ is one more swept
\* entity: add_scens creates one scenario for every combination of scen_vars
\* with each of the n evenly spaced values, n per combination of scen_vars.
C9_ParetoPointsMultiplied ==
    ParetoSweepDone =>
        LET n == last.nParetoPoints
            m == IF ~last.scen_vars.some \/ last.scen_vars.v = <<>>
                 THEN 1 ELSE ArgCombinations
            a == Len(scen_vars.v)
        IN  /\ Len(last.gen) = m * n
            /\ Len(scen_df) = m * n
            /\ scen_vars.v[a].long = "k_PTO_alpha_"
            /\ a = (IF last.scen_vars.some THEN Len(last.scen_vars.v) ELSE 0) + 1
            /\ \A k \in 1..Len(last.gen) :
                   /\ scen_df[k].row[a] = EvenlySpaced(n, ((k - 1) % n) + 1)
                   /\ \A i \in 1..(a - 1) :
                          PyEq(scen_df[k].row[i],
                               Product([x \in 1..(a - 1) |->
                                          scen_vars.v[x].values])[((k - 1) \div n) + 1][i])
                   /\ Survives(k) =>
                          PyEq(Alpha(last.gen[k]), EvenlySpaced(n, ((k - 1) % n) + 1))

\* C9 witness: two combinations of scen_vars, each with both extreme weightings
C9_Witness ==
    /\ ParetoSweepDone
    /\ last.nParetoPoints = 2
    /\ ArgCombinations = 2
    /\ Len(last.gen) = 4
    /\ Survives(1) /\ Survives(2) /\ Survives(3) /\ Survives(4)
    /\ Alpha(last.gen[1]) = FloatV(0, 1) /\ Alpha(last.gen[2]) = FloatV(1, 1)
    /\ Alpha(last.gen[3]) = FloatV(0, 1) /\ Alpha(last.gen[4]) = FloatV(1, 1)

\* C10: when no scenario "0" or "1" is stored, improve_pareto_norm_factors
\* returns with the same scenario ids stored, in the same order, as when it
\* was called.
C10_NoResidualScenario ==
    (/\ last.op = "improve_pareto_norm_factors"
     /\ last.result = "ok"
     /\ ~HasScen(pre.scens, "0")
     /\ ~HasScen(pre.scens, "1")) =>
        /\ scens_ids(scens) = scens_ids(pre.scens)
        /\ ~HasScen(scens, "0")
        /\ ~HasScen(scens, "1")

\* C10 witness: both extreme points were solved to optimality with several
\* scenarios stored
C10_Witness ==
    /\ last.op = "improve_pareto_norm_factors"
    /\ last.result = "ok"
    /\ Len(pre.scens) >= 2
    /\ \E i \in 1..Len(scens) :
           Now(scens[i].id).params["k_PTO_C_"] # Before(scens[i].id).params["k_PTO_C_"]

-----------------------------------------------------------------------------
(* Pareto norm factors *)

\* the last call was improve_pareto_norm_factors and it returned
ImproveDone == last.op = "improve_pareto_norm_factors" /\ last.result = "ok"

\* every stored scenario has the factors kC and kCE
AllFactors(kC, kCE) ==
    \A i \in 1..Len(scens) :
        /\ Now(scens[i].id).params["k_PTO_C_"] = kC
        /\ Now(scens[i].id).params["k_PTO_CE_"] = kCE

\* C11 (as claimed): after improve_pareto_norm_factors returns, every stored
\* scenario has the same k_PTO_C_ and the same k_PTO_CE_, each the inverse
\* 1 / mean of the two values observed in the extreme-point solves.
C11_FactorsAreInverseMeans ==
    ImproveDone =>
        AllFactors(FloatV(2, last.nC[1] + last.nC[2]),
                   FloatV(2, last.nCE[1] + last.nCE[2]))

\* C11 (amended): after improve_pareto_norm_factors returns, every stored
\* scenario has the same k_PTO_C_ and the same k_PTO_CE_, each 1000 divided by
\* the mean of the two values observed in the extreme-point solves.
C11_FactorsAreThousandOverMeans ==
    ImproveDone =>
        /\ Len(last.nC) = 2 /\ Len(last.nCE) = 2
        /\ AllFactors(FloatV(2000, last.nC[1] + last.nC[2]),
                      FloatV(2000, last.nCE[1] + last.nCE[2]))

\* C11 witness: two scenarios are stored and the two extreme points were
\* solved with different costs
C11_Witness ==
    /\ ImproveDone
    /\ Len(scens) >= 2
    /\ last.nC[1] # last.nC[2]
    /\ HasScen(scens, last.based_on.v)

-----------------------------------------------------------------------------
(* The sequential optimize *)

\* the last call was optimize(scens, parallel=False)
SequentialDone == last.op = "optimize"

\* C12: in the sequential optimize a scenario whose solve ends Infeasible has
\* no res afterwards, optimize returns normally, and the success message is
\* printed only if every scenario of the batch is optimal.
C12_InfeasibleLeavesNoRes ==
    SequentialDone =>
        /\ last.result = "ok"
        /\ \A i \in 1..Len(last.batch) :
               last.outs[i].status = "Infeasible" => ~HasRes(Now(last.batch[i]))
        /\ last.msg => \A i \in 1..Len(last.batch) :
                           /\ last.outs[i].status = "Optimal"
                           /\ HasRes(Now(last.batch[i]))

\* C12 witness: a batch of several scenarios of which one is infeasible and a
\* later one is optimal
C12_Witness ==
    /\ SequentialDone
    /\ Len(last.batch) >= 2
    /\ ~last.msg
    /\ \E i, j \in 1..Len(last.batch) :
          /\ i < j
          /\ last.outs[i].status = "Infeasible"
          /\ ~HasRes(Now(last.batch[i]))
          /\ last.outs[j].status = "Optimal"
          /\ HasRes(Now(last.batch[j]))

\* the last call was an optimize whose steps were followed
SteppedDone == last.op = "optimize" /\ Len(last.solved) > 0

\* C13: the sequential optimize solves each scenario of the list as it stood
\* when optimize was called exactly once, in list order, whatever the status
\* of the earlier ones, and solves no scenario added while the batch ran.
C13_BatchSolvedOnceInOrder ==
    /\ run.kind = "seq" =>
           /\ Len(run.log) <= Len(run.frozen)
           /\ run.log = SubSeq(IdsOf(heap, run.frozen), 1, Len(run.log))
    /\ SteppedDone =>
           /\ last.solved = last.batch
           /\ \A i, j \in 1..Len(last.solved) :
                  i # j => last.solved[i] # last.solved[j]
           /\ \A a \in 1..Len(last.added) :
                  \A i \in 1..Len(last.solved) : last.solved[i] # last.added[a]

\* C13 witness: the first scenario of a batch of two was infeasible, a
\* scenario joined the caller's list while the batch ran, and the batch ended
C13_Witness ==
    /\ SteppedDone
    /\ Len(last.batch) = 2
    /\ last.outs[1].status = "Infeasible"
    /\ last.outs[2].status = "Optimal"
    /\ Len(last.added) > 0
    /\ HasScen(scens, last.added[1])
    /\ Len(last.list) = 3
    /\ last.list[3] = last.added[1]

\* optimize(parallel=True) has just ended, and has just returned
ParallelDone == last.op = "optimize" /\ last.parallel
ParallelReturned == ParallelDone /\ last.result = "ok"

\* the scenario holds the three attributes of the value v
Holds(sc, v) ==
    /\ sc.params = v.params
    /\ sc.res = v.res
    /\ sc.collector_values = v.collector_values

\* the attributes the merge does not assign are those of b
SameModel(a, b) ==
    /\ a.components = b.components
    /\ a.vars = b.vars
    /\ a.status = b.status
    /\ Reassigned(a, TaskValue(b)) = b

\* C14: after optimize(parallel=True) has returned, every scenario of the
\* list holds the params, res and collector values returned by the task that
\* was given the copy of the scenario of the same id, in whatever order the
\* tasks finished, and its components and model are those it had before.
C14_MergedByScenario ==
    ParallelReturned =>
        \A i \in 1..Len(last.batch) :
            /\ \A j \in 1..Len(last.tasks) :
                   last.tasks[j].sc.id = last.batch[i] =>
                       Holds(Now(last.batch[i]), TaskValue(last.tasks[j].sc))
            /\ \E j \in 1..Len(last.tasks) : last.tasks[j].sc.id = last.batch[i]
            /\ SameModel(Now(last.batch[i]), Before(last.batch[i]))

\* two tasks that returned different values finished in the reverse of the
\* order they were submitted in, and the results were merged
C14_Witness ==
    /\ ParallelReturned
    /\ Len(last.batch) = 2
    /\ last.solved = <<2, 1>>
    /\ TaskValue(last.tasks[1].sc) # TaskValue(last.tasks[2].sc)
    /\ Now(last.batch[1]).res # Before(last.batch[1]).res

\* C15: a parallel batch is all or nothing. While the tasks run no scenario
\* is reassigned; optimize(parallel=True) returns, with the results merged,
\* only when every submitted task has finished; and when a task has raised
\* the call raises and every scenario of the batch is as it was before.
C15_AllOrNothing ==
    /\ run.kind = "par" => scens = pre.scens /\ heap = pre.heap
    /\ ParallelReturned =>
           /\ Len(last.solved) = Len(last.batch)
           /\ \A j \in 1..Len(last.tasks) : last.tasks[j].state = "done"
    /\ (ParallelDone /\ Failed(last.tasks)) =>
           /\ last.result = "RayTaskError"
           /\ \A i \in 1..Len(last.batch) :
                  Now(last.batch[i]) = Before(last.batch[i])

\* of two tasks the first returned its value and the second raised, and the
\* call raised
C15_Witness ==
    /\ ParallelDone
    /\ last.result = "RayTaskError"
    /\ Len(last.tasks) = 2
    /\ last.solved = <<1, 2>>
    /\ last.tasks[1].state = "done"
    /\ last.tasks[2].state = "raised"
    /\ ~HasRes(Now(last.batch[1]))

\* the scenario as it was when optimize(parallel=True) was called, for the
\* task at position j of a batch of references
Original(refs, j) == pre.heap[refs[j]]

\* C16: the tasks share no state. While the batch runs the stored scenarios
\* are as they were when the call started, and the copy of every task is
\* either the scenario it was given or that scenario solved, whatever the
\* other tasks have done; after the merge every scenario holds what solving
\* it alone would have produced, in whatever order the tasks finished.
C16_TasksShareNothing ==
    /\ run.kind = "par" =>
           /\ heap = pre.heap
           /\ \A j \in 1..Len(run.tasks) :
                  run.tasks[j].sc =
                      IF run.tasks[j].state = "pending"
                      THEN Original(run.frozen, j)
                      ELSE solve(Original(run.frozen, j), run.outs[j])
    /\ ParallelReturned =>
           \A i \in 1..Len(last.batch) :
               Holds(Now(last.batch[i]),
                     TaskValue(solve(Before(last.batch[i]), last.outs[i])))

\* the solver answered differently for two scenarios, the task submitted
\* second finished first, and each scenario holds its own result
C16_Witness ==
    /\ ParallelReturned
    /\ Len(last.batch) = 2
    /\ last.outs[1] # last.outs[2]
    /\ last.solved = <<2, 1>>
    /\ Now(last.batch[2]).res = Res(last.outs[2].C_TOT_, last.outs[2].CE_TOT_)

\* C20: after set_time_horizon(start, steps) or set_time_horizon(start, end)
\* has returned, the window is not empty, its first element is the element
\* of the full index at the stored t1 and its last element the one at the
\* stored t2.
C20_WindowMatchesBounds ==
    (last.op = "set_time_horizon" /\ last.result = "ok"
        /\ (last.steps.some \/ last.end.some)) =>
        /\ cs.dict.t1 = last.start
        /\ cs.dict.dtindex_custom # <<>>
        /\ InRange(cs.dict.dtindex, cs.dict.t1)
        /\ InRange(cs.dict.dtindex, cs.dict.t2)
        /\ cs.dict.dtindex_custom[1] = PyIndex(cs.dict.dtindex, cs.dict.t1)
        /\ cs.dict.dtindex_custom[Len(cs.dict.dtindex_custom)]
              = PyIndex(cs.dict.dtindex, cs.dict.t2)

\* a window of two steps was set inside the year
C20_Witness ==
    /\ last.op = "set_time_horizon"
    /\ last.result = "ok"
    /\ last.start = 1
    /\ last.steps = Some(2)
    /\ cs.dict.t1 = 1
    /\ cs.dict.t2 = 2
    /\ Len(cs.dict.dtindex_custom) = 2

\* a scenario without a component list whose registry holds no collector
Bare(sc) == ~sc.components.has /\ DOMAIN sc.collectors = {}

\* C17: no scenario of a file save has written has a component list or a
\* collector in its registry; a save on scenarios already stripped changes
\* nothing of them, and whenever pickling succeeds save returns normally,
\* having written the file at its path.
C17_SavedWithoutComponents ==
    /\ \A k \in 1..Len(files) :
           HasObject(files[k]) =>
               \A r \in 1..Len(Dumped(files[k]).heap) :
                   Bare(Dumped(files[k]).heap[r])
    /\ (last.op = "save" /\ \A r \in 1..Len(pre.heap) : Bare(pre.heap[r])) =>
           heap = pre.heap
    /\ (last.op = "save" /\ last.dump = "ok") =>
           /\ last.result = "ok"
           /\ files[last.file].fp = last.fp
           /\ HasObject(files[last.file])
           /\ Dumped(files[last.file]).of = cs

\* a case study with a solved scenario was saved, and saved again
C17_Witness ==
    /\ last.op = "save"
    /\ last.result = "ok"
    /\ Len(files) = 2
    /\ HasObject(files[1]) /\ HasObject(files[2])
    /\ \E r \in 1..Len(Dumped(files[1]).heap) :
           /\ HasRes(Dumped(files[1]).heap[r])
           /\ ~Dumped(files[1]).heap[r].components.has
    /\ Dumped(files[2]).heap = Dumped(files[1]).heap

\* C18: when pickling fails inside save, the failure is reported and not
\* raised, and the scenarios are as they were before the call, with their
\* components, collectors, params and res.
C18_FailedSaveLeavesIntact ==
    (last.op = "save" /\ last.dump # "ok") =>
        /\ last.result = "reported"
        /\ scens = pre.scens
        /\ \A r \in 1..Len(heap) :
               /\ heap[r].components = pre.heap[r].components
               /\ heap[r].collectors = pre.heap[r].collectors
               /\ heap[r].params = pre.heap[r].params
               /\ heap[r].res = pre.heap[r].res

\* the ids of the scenarios of a loaded case study, in their order
LoadedIds(o) == [i \in 1..Len(o.scens) |-> o.scens[i].id]

\* the loaded object o has the attributes the object src had when pickled
SameCaseStudy(o, src) ==
    /\ o.dict.name = src.dict.name
    /\ o.dict.t1 = src.dict.t1
    /\ o.dict.t2 = src.dict.t2
    /\ o.dict.obj_vars = src.dict.obj_vars
    /\ o.dict.consider_invest = src.dict.consider_invest

\* C19: a case study loaded from a file has the name, window, obj_vars and
\* consider_invest the pickled one had, and its scenario ids in the same
\* order; the file holds no plotter; the loaded object has a plotter bound
\* to itself; and the live object keeps its own plotter.
C19_RoundTrip ==
    /\ \A n \in 1..Len(opened) :
           /\ SameCaseStudy(opened[n].cs, opened[n].src.of)
           /\ LoadedIds(opened[n]) = opened[n].src.ids
           /\ opened[n].cs.self # opened[n].src.of.self
           /\ opened[n].cs.dict.plot = CsPlotter(opened[n].cs.self)
    /\ \A k \in 1..Len(files) :
           HasObject(files[k]) => ~Dumped(files[k]).dict.plot.has
    /\ cs.dict.plot = CsPlotter(cs.self)

\* a case study built with other arguments than the defaults, with two
\* scenarios and a window inside the year, was saved and loaded
C19_Witness ==
    /\ Len(opened) = 1
    /\ opened[1].cs.dict.name = "semdr"
    /\ opened[1].cs.dict.t1 = 1
    /\ opened[1].cs.dict.t2 = 2
    /\ Len(opened[1].scens) = 2
    /\ cs.dict.plot.has

\* C21: in every state reached by calls of set_time_horizon and
\* set_rolling_horizon, failed ones included, 0 <= t1 <= t2 < len(dtindex)
\* and dtindex_custom is dtindex[t1 : t2 + 1].
C21_WindowInvariant ==
    /\ 0 <= cs.dict.t1
    /\ cs.dict.t1 <= cs.dict.t2
    /\ cs.dict.t2 < Len(cs.dict.dtindex)
    /\ cs.dict.dtindex_custom = SubSeq(cs.dict.dtindex, cs.dict.t1 + 1, cs.dict.t2 + 1)

\* C22: set_time_horizon(start, steps) with steps >= 1, from a start inside
\* the index, returns exactly when start + steps - 1 <= len(dtindex) - 1,
\* a window ending on the last element included, and raises otherwise.
C22_StepsFitExactly ==
    (/\ last.op = "set_time_horizon"
     /\ last.steps.some /\ ~last.end.some
     /\ last.steps.v >= 1
     /\ 0 <= last.start /\ last.start < Len(cs.dict.dtindex)) =>
        (last.result = "ok"
            <=> last.start + last.steps.v - 1 <= Len(cs.dict.dtindex) - 1)

\* C23: set_time_horizon(start) with neither steps nor end raises and leaves
\* the window as it was.
C23_NeitherStepsNorEndFails ==
    (/\ last.op = "set_time_horizon"
     /\ ~last.steps.some /\ ~last.end.some) =>
        /\ last.result # "ok"
        /\ Window(cs.dict) = last.was

\* set_rolling_horizon has just been called
Rolled == last.op = "set_rolling_horizon"

\* the steps of the horizon of the last call
LastSteps == StepsFor(last.hours, cs.dict.freq)

\* C24: when the horizon fits, t1 + StepsFor(hours) <= len(dtindex),
\* set_rolling_horizon(hours) leaves t1 as it was, sets t2 to
\* t1 + StepsFor(hours) - 1, and the window has exactly StepsFor(hours)
\* elements, hours times the steps of an hour.
C24_FittingHorizon ==
    (/\ Rolled
     /\ last.hours >= 0
     /\ last.was.t1 + LastSteps <= Len(cs.dict.dtindex)) =>
        /\ cs.dict.t1 = last.was.t1
        /\ cs.dict.t2 = cs.dict.t1 + LastSteps - 1
        /\ Len(cs.dict.dtindex_custom) = LastSteps

\* C25: when the horizon exceeds the data left, t1 + StepsFor(hours) >
\* len(dtindex), set_rolling_horizon returns with the whole remaining range:
\* t1 is kept and t2 is len(dtindex) - 1, for every t1.
C25_ExceedingHorizonDegrades ==
    (/\ Rolled
     /\ last.was.t1 + LastSteps > Len(cs.dict.dtindex)) =>
        /\ last.result = "ok"
        /\ cs.dict.t1 = last.was.t1
        /\ cs.dict.t2 = Len(cs.dict.dtindex) - 1

\* C26: set_rolling_horizon(h) called twice in a row with the same h leaves,
\* the second time, t2 and dtindex_custom (and t1) as the first call left
\* them.
C26_RollingIdempotent ==
    (Rolled /\ last.again) => Window(cs.dict) = last.was

\* a horizon of two hours was set twice in a row on the full year, the first
\* call having shortened the window
C26_Witness ==
    /\ Rolled
    /\ last.again
    /\ last.hours = 2
    /\ cs.dict.freq = "60min"
    /\ cs.dict.t1 = 0
    /\ cs.dict.t2 = 1
    /\ Len(cs.dict.dtindex_custom) = 2

\* C27: with a valid year, CaseStudy(freq=...) returns exactly for the
\* frequencies 1, 5, 15, 30 and 60 minutes; for any other frequency it
\* raises with no attribute of the window set, and no object; when it
\* returns, the window is the full year: t1 = 0, t2 = len(dtindex) - 1.
C27_FrequencyValidated ==
    last.op = "CaseStudy" =>
        /\ last.year \in ValidYears =>
               (last.result = "ok" <=>
                   last.freq \in {"1min", "5min", "15min", "30min", "60min"})
        /\ last.result # "ok" =>
               /\ last.attrs \cap WindowAttrs = {}
               /\ cs = NoCaseStudy
        /\ last.result = "ok" =>
               /\ cs.dict.freq = last.freq
               /\ cs.dict.t1 = 0
               /\ cs.dict.t2 = Len(cs.dict.dtindex) - 1
               /\ cs.dict.dtindex_custom = cs.dict.dtindex
               /\ cs.dict.dtindex # <<>>

\* a case study of one-minute steps was constructed
C27_Witness ==
    /\ last.op = "CaseStudy"
    /\ last.result = "ok"
    /\ last.freq = "1min"
    /\ cs.dict.freq = "1min"
    /\ cs.dict.t2 = DtSize - 1

\* the resolver has just been applied
Resolving == last.op = "resolve"

\* the declared predecessors of a component that are part of the set
ActivePreds(n) == (last.deps[n].req \cup last.deps[n].opt) \cap NameSet(last.names)

\* a required predecessor of some component is not part of the set
SomeAbsent ==
    \E n \in NameSet(last.names) : last.deps[n].req \ NameSet(last.names) # {}

\* a depends on b, directly or through at most k components
RECURSIVE DependsOn(_, _, _)
DependsOn(a, b, k) ==
    /\ k > 0
    /\ \/ b \in ActivePreds(a)
       \/ \E x \in ActivePreds(a) : DependsOn(x, b, k - 1)

\* the dependency graph of the set has a cycle
Cyclic == \E n \in NameSet(last.names) : DependsOn(n, n, Len(last.names))

\* A depends on B and B on C, and nothing else
IsChain ==
    /\ NameSet(last.names) = {"A", "B", "C"}
    /\ ActivePreds("A") = {"B"}
    /\ ActivePreds("B") = {"C"}
    /\ ActivePreds("C") = {}

\* C28: when the resolver yields an order, the order holds every component
\* once and every declared predecessor of a component that is part of the
\* set precedes it; for A depends-on B, B depends-on C the order is C, B, A
\* for every order the three names are given in.
C28_PredecessorsFirst ==
    /\ (Resolving /\ last.result = "ok") =>
           /\ Len(last.order) = Len(last.names)
           /\ NameSet(last.order) = NameSet(last.names)
           /\ \A n \in NameSet(last.names) :
                  \A q \in ActivePreds(n) :
                      PosIn(last.order, q, 1) < PosIn(last.order, n, 1)
    /\ (Resolving /\ IsChain /\ ~SomeAbsent) =>
           /\ last.result = "ok"
           /\ last.order = <<"C", "B", "A">>

\* the chain given as A, B, C came out as C, B, A
C28_Witness ==
    /\ Resolving
    /\ IsChain
    /\ last.names = <<"A", "B", "C">>
    /\ last.deps["A"].req = {"B"}
    /\ last.order = <<"C", "B", "A">>

C30_AbsentPredecessor ==
    /\ (Resolving /\ SomeAbsent) =>
           /\ last.result = "UnresolvedDependencyError"
           /\ last.order = <<>>
    /\ (Resolving /\ ~SomeAbsent /\ ~Cyclic) => last.result = "ok"
    /\ (Resolving /\ last.deps = semdr_order_restrictions) => last.result = "ok"

\* SEMDRGrid and SEMDRMain were ordered in a scenario without SEMDRPV
C30_Witness ==
    /\ Resolving
    /\ last.names = <<"SEMDRMain", "SEMDRGrid">>
    /\ last.deps = semdr_order_restrictions
    /\ last.result = "ok"
    /\ last.order = <<"SEMDRGrid", "SEMDRMain">>

\* C35: the legacy scenario of test_legacy_hotel_scenario, beginning with
\* CaseStudy(name="Legacy_Test", freq="1h", year=2020), is constructed
\* without error.
C35_LegacyConstructs ==
    (last.op = "CaseStudy" /\ last.freq = "1h" /\ last.year = 2020) =>
        /\ last.result = "ok"
        /\ cs # NoCaseStudy

\* the place of a phase of a component in the build so far, 0 if it has not run
RECURSIVE PhasePos(_, _, _)
PhasePos(phase, comp, i) ==
    IF i > Len(build.trace) THEN 0
    ELSE IF build.trace[i] = [phase |-> phase, comp |-> comp] THEN i
    ELSE PhasePos(phase, comp, i + 1)

\* the components the scenario is built from
Added == NameSet(build.added)

\* the sums a component has formed over a collector
SumsBy(comp, c) ==
    {build.reg.sums[i] : i \in {k \in 1..Len(build.reg.sums) :
        build.reg.sums[k].by = comp /\ build.reg.sums[k].c = c}}

\* C31: whatever the order the components were added in, no phase of any
\* component runs after SEMDRMain's model phase, and a build that completes
\* with SEMDRMain ends with it; when SEMDRPV is part of the scenario,
\* SEMDRGrid's model phase runs after SEMDRPV's and the sum SEMDRGrid forms
\* over P_EG_sell_T holds the contribution "PV".
C31_MainLastFeedInFirst ==
    /\ PhasePos("model", "SEMDRMain", 1) \in {0, Len(build.trace)}
    /\ (build.kind = "done" /\ "SEMDRMain" \in Added) =>
           PhasePos("model", "SEMDRMain", 1) = Len(build.trace)
    /\ (PhasePos("model", "SEMDRGrid", 1) # 0 /\ "SEMDRPV" \in Added) =>
           /\ PhasePos("model", "SEMDRPV", 1) # 0
           /\ PhasePos("model", "SEMDRPV", 1) < PhasePos("model", "SEMDRGrid", 1)
           /\ SumsBy("SEMDRGrid", "P_EG_sell_T") # {}
           /\ \A x \in SumsBy("SEMDRGrid", "P_EG_sell_T") : x.seen = {"PV"}

\* a scenario whose components were added with SEMDRMain first and SEMDRGrid
\* before SEMDRPV has been built
C31_Witness ==
    /\ build.kind = "done"
    /\ build.added = <<"SEMDRMain", "SEMDRGrid", "SEMDRPV", "SEMDRElectricDemand">>
    /\ build.order = <<"SEMDRPV", "SEMDRGrid", "SEMDRElectricDemand", "SEMDRMain">>
    /\ PhasePos("model", "SEMDRMain", 1) = Len(build.trace)
    /\ \E x \in SumsBy("SEMDRGrid", "P_EG_sell_T") : x.seen = {"PV"}

\* C32: when a build has completed, every sum SEMDRMain formed over
\* C_TOT_op_, C_TOT_, CE_TOT_, P_EL_source_T and P_EL_sink_T holds every
\* contribution that was registered into that collector during the build.
C32_AggregatorSeesAll ==
    build.kind = "done" =>
        \A c \in {"C_TOT_op_", "C_TOT_", "CE_TOT_", "P_EL_source_T", "P_EL_sink_T"} :
            \A x \in SumsBy("SEMDRMain", c) : x.seen = build.reg.held[c]

\* the phases that have run, in their order
PhasesRun == [i \in 1..Len(build.trace) |-> build.trace[i].phase]

\* no collector of the scenario is declared by a component that is missing
SelfContained ==
    /\ "SEMDRMain" \in Added
    /\ "SEMDRPV" \in Added => "SEMDRGrid" \in Added

\* C36: in a build the parameter phase of every component, SEMDRMain's
\* included, has run before the first model phase runs, so that (when the
\* components that declare the collectors are part of the scenario) no
\* component names a collector that is not declared yet: no build ends with
\* the error of an undeclared collector.
C36_DeclaredBeforeUse ==
    /\ \A i, j \in 1..Len(build.trace) :
           (PhasesRun[i] = "param" /\ PhasesRun[j] = "model") => i < j
    /\ (\E j \in 1..Len(build.trace) : PhasesRun[j] = "model") =>
           \A comp \in Added : PhasePos("param", comp, 1) # 0
    /\ \A c \in SemdrCollectors :
           (build.reg.held[c] # {} \/ SumsBy("SEMDRMain", c) # {}
              \/ SumsBy("SEMDRGrid", c) # {}) => c \in build.reg.declared
    /\ SelfContained => build.result # "AttributeError"
    /\ (SelfContained /\ build.kind = "done") =>
           /\ build.reg.held["P_EL_sink_T"] # {} \/ Added = {"SEMDRMain"}
           /\ SumsBy("SEMDRMain", "P_EL_sink_T") # {}

\* SEMDRElectricDemand has contributed to a collector that SEMDRMain, ordered
\* last, declared
C36_Witness ==
    /\ build.kind = "run"
    /\ build.phase = "model"
    /\ build.order = <<"SEMDRElectricDemand", "SEMDRMain">>
    /\ build.pos = 1
    /\ "eDem" \in build.reg.held["P_EL_sink_T"]
    /\ PhasePos("param", "SEMDRMain", 1) < PhasePos("model", "SEMDRElectricDemand", 1)

\* C33: after optimize, a scenario of the batch carries res, and counts among
\* the valid scenarios, exactly if its solve ended Optimal, whatever its
\* earlier solves ended with; a scenario whose solve ended Infeasible,
\* Unbounded, TimeLimit or Error carries that status and has its parameters,
\* variable declarations, variables, collectors and components as before.
C33_ResOnlyWhenOptimal ==
    SequentialDone =>
        \A i \in 1..Len(last.batch) :
            /\ HasRes(Now(last.batch[i])) <=> last.outs[i].status = "Optimal"
            /\ last.batch[i] \in valid_scens(scens, heap)
                  <=> last.outs[i].status = "Optimal"
            /\ last.outs[i].status # "Optimal" =>
                  /\ last.outs[i].status \in
                        {"Infeasible", "Unbounded", "TimeLimit", "Error"}
                  /\ Now(last.batch[i]) =
                        [Before(last.batch[i]) EXCEPT
                            !.status = last.outs[i].status,
                            !.res = NoRes,
                            !.collector_values = NoValues]

\* a scenario whose earlier solve hit the time limit, and left it without
\* res, has been solved again and is optimal
C33_Witness ==
    /\ SequentialDone
    /\ \E i \in 1..Len(last.batch) :
          /\ Before(last.batch[i]).status = "TimeLimit"
          /\ ~HasRes(Before(last.batch[i]))
          /\ last.outs[i].status = "Optimal"
          /\ HasRes(Now(last.batch[i]))
          /\ last.batch[i] \in valid_scens(scens, heap)

\* the last call was update_params with the given overrides
UpdateDone == last.op = "update_params" /\ last.kwargs # <<>>

\* the keys of a call that name neither a declared variable nor a parameter
UnknownKeys(sc, kwargs) ==
    {kwargs[i].key : i \in 1..Len(kwargs)} \ (DOMAIN sc.meta \cup DOMAIN sc.params)

\* the place of the first key of a call that names no entity, 0 when every
\* key names one
FirstUnknown(sc, kwargs) ==
    IF UnknownKeys(sc, kwargs) = {} THEN 0
    ELSE CHOOSE i \in 1..Len(kwargs) :
            /\ kwargs[i].key \in UnknownKeys(sc, kwargs)
            /\ \A j \in 1..(i - 1) : kwargs[j].key \notin UnknownKeys(sc, kwargs)

\* the keys of a call before place f
KeysBefore(kwargs, f) == {kwargs[i].key : i \in 1..(f - 1)}

\* the key at place i of the last call holds its override
Holding(i) ==
    IF last.kwargs[i].key \in DOMAIN Before(last.id.v).meta
    THEN Now(last.id.v).meta[last.kwargs[i].key] =
            [lb |-> last.kwargs[i].value, ub |-> last.kwargs[i].value]
    ELSE Now(last.id.v).params[last.kwargs[i].key] = last.kwargs[i].value

C37_AutoIdIsFresh ==
    (last.op = "add_scen" /\ last.result = "ok" /\ ~last.id.some) =>
        last.sid \notin IdSet(pre.scens)

\* the last call was add_scens and raised in its loop, after creating scenarios
SweepFailed ==
    /\ last.op = "add_scens"
    /\ last.result # "ok"
    /\ last.gen # <<>>

\* the sweep specification in effect in the last add_scens call
LastSweep == EffectiveScenVars(last.scen_vars, last.nParetoPoints)

\* C38: when add_scens fails partway, every scenario it created before the
\* failure, the one whose override failed included, is registered in scens,
\* nothing else was added or removed (the base stays even with remove_base),
\* and scen_vars and scen_df are those of the failed call.
C38_NoRollback ==
    SweepFailed =>
        /\ \A i \in 1..Len(last.gen) : HasScen(scens, last.gen[i])
        /\ IdSet(scens) = IdSet(pre.scens) \cup NameSet(last.gen)
        /\ HasScen(scens, last.based_on.v)
        /\ scen_vars = LastSweep
        /\ scen_df = SweepTable(LastSweep.v)
        /\ Len(last.gen) <= Len(scen_df)
        /\ \A i \in 1..Len(last.gen) : last.gen[i] \notin IdSet(pre.scens) =>
               Now(last.gen[i]).name = scen_df[i].name

\* the second combination of a sweep failed: the scenario of the first one
\* and the scenario of the failed one are both in scens, under a sweep table
\* of two columns
C38_Witness ==
    /\ SweepFailed
    /\ last.gen = <<"xk_PTO_C_", "xnope">>
    /\ IdSet(scens) = {"REF", "xk_PTO_C_", "xnope"}
    /\ ~HasScen(pre.scens, "xnope")
    /\ Len(scen_df) = 2
    /\ Now("xk_PTO_C_").params["c_eDem_penalty_"] = IntV(1)
    /\ Now("xnope").params["c_eDem_penalty_"] = IntV(100)

\* the topic patterns of the devices a component is configured with
IdTopics(id, kind) == IF Truthy(id) THEN {Topic(id, kind)} ELSE {}
SensorTopics(ids, kind) ==
    IF ids.some THEN {Topic(Some(ids.v[i]), kind) : i \in 1..Len(ids.v)} ELSE {}
ConfiguredTopics(c) ==
    IdTopics(c.iot_device_id, "electrical")
    \cup SensorTopics(c.temp_sensor_ids, "environmental")
    \cup SensorTopics(c.occupancy_sensor_ids, "occupancy")
    \cup IdTopics(c.battery_monitor_id, "battery")
    \cup IdTopics(c.weather_station_id, "weather")
    \cup IdTopics(c.inverter_monitor_id, "inverter")
    \cup IdTopics(c.smart_meter_id, "meter")
    \cup IdTopics(c.grid_monitor_id, "grid")

\* the components of the last call whose own schema is not empty
WithSchema ==
    {i \in 1..Len(last.comps) :
        /\ HasSchemaMethod(last.comps[i])
        /\ get_iot_data_schema(last.comps[i]) # <<>>}

\* C39: the system schema lists in iot_core_topics the topic pattern of every
\* device the given components are configured with, and device_schemas has
\* one entry, the component's own schema under its class name, per component
\* whose schema is not empty.
C39_AllTopicsListed ==
    last.op = "get_system_iot_schema" =>
        /\ \A i \in 1..Len(last.comps) :
              ConfiguredTopics(last.comps[i])
                  \subseteq NameSet(last.schema.iot_core_topics)
        /\ Len(last.schema.device_schemas) = Cardinality(WithSchema)
        /\ \A i \in WithSchema :
              /\ HasKey(last.schema.device_schemas, last.comps[i].class)
              /\ AtKey(last.schema.device_schemas, last.comps[i].class)
                     = Dict(get_iot_data_schema(last.comps[i]))

\* the last call was fetch_device_data and could not use the database
FellBack ==
    /\ last.op = "fetch_device_data"
    /\ (~last.fetch.connected \/ last.fetch.answer.kind = "raise")

\* C40: fetch_device_data never raises and always returns a data table;
\* without a connection or when the query fails, the table holds synthetic
\* data, for every kind of device id.
C40_FetchNeverRaises ==
    last.op = "fetch_device_data" =>
        /\ last.fetch.out.kind = "frame"
        /\ FellBack => last.fetch.out.source = "synthetic"
====
